---- MODULE Spec2Model ----
(***************************************************************************)
(* AI_notes: the provider-abstraction and request layer.                   *)
(*                                                                         *)
(* AIService (the dispatch facade) holds a map from vendor tag to one of   *)
(* three adapter singletons (OpenAIService, GeminiService,                 *)
(* AnthropicService).  Each adapter turns a task into one axios.post and   *)
(* unwraps the vendor's JSON reply into an AIResponse.                     *)
(*                                                                         *)
(* A call is modelled as a frame: the facade and the adapter run           *)
(* synchronously up to the awaited axios.post (one action), the promise    *)
(* settles (one action), and the caller takes the response (one action).   *)
(***************************************************************************)
EXTENDS Integers, Sequences, FiniteSets, TLC

(***************************************************************************)
(* Bounds.                                                                 *)
(***************************************************************************)
\* Number of call frames that can be live (in flight or returned and not yet
\* taken by the caller) at the same time.
MaxCalls == 2

\* Longest reply text enumerated for the suggestion parser.
MaxLen == 4

\* Number of saveProviders calls that can be awaiting AsyncStorage at once.
MaxSaves == 1

\* The longest note content typed into the editor, in characters.
MaxContent == 3

\* How many times Save is tapped while the editor stays open.
MaxTaps == 2

\* How many word replacements are saved to the history.
MaxReplacements == 2

\* The longest content of a note that is saved, in characters.
MaxSavedContent == 1

CallIds == 1..MaxCalls

(***************************************************************************)
(* State.                                                                  *)
(***************************************************************************)
VARIABLES
    providers,  \* AIService.providers: vendor tag -> adapter singleton
    baseURL,    \* the baseURL field of each adapter singleton
    calls,      \* call frames: the arguments and locals of each live facade call
    http,       \* the HTTP requests each live call has issued, in order
    parseIn,    \* a findSimilarWords reply text handed to the suggestion parser
    parseOut,   \* the suggestion list parsed from it
    asyncStorage, \* AsyncStorage: the item stored under each key, null when none
    component,  \* the mounted consumer: WordSuggestions or HardWordsAnalyzer
    props,      \* its current word (WordSuggestions) or text (HardWordsAnalyzer)
    view,       \* its React state: loading, error and the list it shows
    fetches,    \* the runs of fetchSuggestions / analyzeText, one frame each
    screen,     \* AISettingsScreen state: providers, editingProvider, showEditModal
    saves,      \* the saveProviders calls awaiting an AsyncStorage.setItem, oldest first
    db,         \* DatabaseService.db: null until the database is opened
    notes,      \* the rows of table notes of AINotesApp.db, by id
    lastOp,     \* the last storage operation called and what it gave its caller
    home,       \* HomeScreen: its React state, its loadNotes run, its alerts
    editor,     \* NoteEditor: its React state and the notes it handed to onSave
    history,    \* the rows of table hard_words_history, oldest first
    replacements \* the handleWordReplace calls of HardWordsAnalyzer under way, oldest first

dispatchVars == <<providers, baseURL, calls, http>>
parseVars == <<parseIn, parseOut>>
consumerVars == <<component, props, view, fetches>>

settingsVars == <<screen, saves>>
screenVars == <<home, editor, history, replacements>>
otherThanSettings == <<dispatchVars, parseVars, consumerVars, db, notes, lastOp, screenVars>>

storeVars == <<db, notes, lastOp>>
otherThanStore == <<dispatchVars, parseVars, consumerVars, settingsVars, screenVars>>

vars == <<dispatchVars, parseVars, asyncStorage, consumerVars, settingsVars, storeVars, screenVars>>

(***************************************************************************)
(* JavaScript values.  A value is a record whose single field names its    *)
(* kind, so that values of different kinds can be compared.                *)
(***************************************************************************)
Undef == [undef |-> TRUE]
Null == [null |-> TRUE]
Str(s) == [str |-> s]
Num(n) == [num |-> n]
Arr(a) == [arr |-> a]
Obj(o) == [obj |-> o]
\* The message of the TypeError a property read on undefined or null raises
\* (the wording is the engine's; it is never empty).
TypeErrorMessage == "Cannot read properties of undefined"
Thrown == [typeError |-> TypeErrorMessage]

IsUndef(v) == "undef" \in DOMAIN v
IsNull(v) == "null" \in DOMAIN v
IsStr(v) == "str" \in DOMAIN v
IsArr(v) == "arr" \in DOMAIN v
IsObj(v) == "obj" \in DOMAIN v
IsThrown(v) == "typeError" \in DOMAIN v

\* v.key as JavaScript evaluates it: a TypeError on undefined and null, the
\* member of an object when it has one, undefined otherwise (no named member
\* of an array, a string or a number is read by this program).
Prop(v, key) ==
    IF IsThrown(v) THEN Thrown
    ELSE IF IsUndef(v) \/ IsNull(v) THEN Thrown
    ELSE IF IsObj(v) THEN (IF key \in DOMAIN v.obj THEN v.obj[key] ELSE Undef)
    ELSE Undef

\* v[0] as JavaScript evaluates it: a TypeError on undefined and null, the
\* first element of a non-empty array, the member "0" of an object, undefined
\* otherwise.
First(v) ==
    IF IsThrown(v) THEN Thrown
    ELSE IF IsUndef(v) \/ IsNull(v) THEN Thrown
    ELSE IF IsArr(v) THEN (IF Len(v.arr) >= 1 THEN v.arr[1] ELSE Undef)
    ELSE IF IsObj(v) THEN (IF "0" \in DOMAIN v.obj THEN v.obj["0"] ELSE Undef)
    ELSE Undef

(***************************************************************************)
(* Vendor tags and adapters.                                               *)
(***************************************************************************)
OPENAI == "openai"
GEMINI == "gemini"
ANTHROPIC == "anthropic"
AIProviderType == {OPENAI, GEMINI, ANTHROPIC}

\* A tag the enum does not have: what JSON.parse of a stored record of
\* another version can hand to the facade.
UnknownTag == "mistral"
VendorTags == AIProviderType \cup {UnknownTag}

OpenAIService == "OpenAIService"
GeminiService == "GeminiService"
AnthropicService == "AnthropicService"
Adapters == {OpenAIService, GeminiService, AnthropicService}
NoService == "undefined"

\* Mutant: the Gemini tag registered with the OpenAI adapter.
AIServiceConstructor_swapped ==
    (OPENAI :> OpenAIService) @@ (GEMINI :> OpenAIService) @@ (ANTHROPIC :> AnthropicService)

\* AIService.constructor: the three providers.set calls.
AIServiceConstructor ==
    (OPENAI :> OpenAIService) @@ (GEMINI :> GeminiService) @@ (ANTHROPIC :> AnthropicService)

\* The baseURL field each adapter singleton is constructed with.
AdapterBaseURL ==
    (OpenAIService :> "https://api.openai.com/v1/chat/completions")
    @@ (GeminiService :> "https://generativelanguage.googleapis.com/v1beta/models")
    @@ (AnthropicService :> "https://api.anthropic.com/v1/messages")

(***************************************************************************)
(* Inputs: the task arguments and the Provider Configs a caller passes.    *)
(***************************************************************************)
Texts == {"The ubiquitous gadget"}
Words == {"ubiquitous"}
Contexts == {"It is a ubiquitous gadget."}
ApiKeys == {"", "sk-test"}
Models == {"", "custom-model"}

\* AIProvider (types/AIProvider.ts).  The type field is whatever JSON.parse
\* of the stored record yields, so it may be a tag outside the enum.
ProviderConfigs ==
    [type : AIProviderType, apiKey : ApiKeys, model : Models, isActive : {TRUE}]
    \cup [type : {UnknownTag}, apiKey : {"sk-test"}, model : {""}, isActive : {TRUE}]

\* provider.model || fallback
ModelOr(provider, fallback) == IF provider.model = "" THEN fallback ELSE provider.model

(***************************************************************************)
(* Prompts: each adapter instantiates the same three templates.            *)
(***************************************************************************)
simplifyPrompt(text) == [template |-> "simplify", text |-> text]
similarPrompt(word, context) == [template |-> "similar", word |-> word, context |-> context]
analyzePrompt(text) == [template |-> "analyze", text |-> text]

(***************************************************************************)
(* The axios.post each adapter's makeRequest issues.                       *)
(***************************************************************************)
OpenAIRequest(endpoint, prompt, provider) ==
    [method |-> "POST",
     url |-> <<endpoint>>,
     headers |-> [Authorization |-> <<"Bearer ", provider.apiKey>>,
                  ContentType |-> "application/json"],
     body |-> [model |-> ModelOr(provider, "gpt-3.5-turbo"),
               messages |-> <<[role |-> "user", content |-> prompt]>>,
               temperature |-> "0.7",
               max_tokens |-> "1000"]]

GeminiRequest(endpoint, prompt, provider) ==
    [method |-> "POST",
     url |-> <<endpoint, "/", ModelOr(provider, "gemini-pro"), ":generateContent?key=",
               provider.apiKey>>,
     headers |-> [ContentType |-> "application/json"],
     body |-> [contents |-> <<[parts |-> <<[text |-> prompt]>>]>>,
               generationConfig |-> [temperature |-> "0.7", topK |-> "40", topP |-> "0.95",
                                     maxOutputTokens |-> "1000"]]]

\* Mutant: the key sent the OpenAI way, as a bearer token.
AnthropicRequest_bearer(endpoint, prompt, provider) ==
    [method |-> "POST",
     url |-> <<endpoint>>,
     headers |-> [Authorization |-> <<"Bearer ", provider.apiKey>>,
                  ContentType |-> "application/json",
                  anthropicVersion |-> "2023-06-01"],
     body |-> [model |-> ModelOr(provider, "claude-3-sonnet-20240229"),
               max_tokens |-> "1000",
               messages |-> <<[role |-> "user", content |-> prompt]>>]]

AnthropicRequest(endpoint, prompt, provider) ==
    [method |-> "POST",
     url |-> <<endpoint>>,
     headers |-> [xApiKey |-> provider.apiKey,
                  ContentType |-> "application/json",
                  anthropicVersion |-> "2023-06-01"],
     body |-> [model |-> ModelOr(provider, "claude-3-sonnet-20240229"),
               max_tokens |-> "1000",
               messages |-> <<[role |-> "user", content |-> prompt]>>]]

\* The request the adapter `service` builds.
AdapterRequest(service, endpoint, prompt, provider) ==
    CASE service = OpenAIService -> OpenAIRequest(endpoint, prompt, provider)
      [] service = GeminiService -> GeminiRequest(endpoint, prompt, provider)
      [] service = AnthropicService -> AnthropicRequest(endpoint, prompt, provider)

(***************************************************************************)
(* What the awaited axios.post settles with: a 2xx reply carrying the      *)
(* parsed body, or a rejection (axios rejects on a network failure and on  *)
(* every non-2xx status) with the value thrown.                            *)
(***************************************************************************)
Resolved(data) == [resolved |-> data]
\* A rejection with an Error instance carrying `message`.
RejectedError(message) == [rejected |-> [error |-> message]]
\* A rejection with a value that is not an Error instance.
RejectedValue(v) == [rejected |-> [value |-> v]]
IsResolved(reply) == "resolved" \in DOMAIN reply
IsErrorInstance(e) == "error" \in DOMAIN e

\* Vendor envelopes, as the top-level members of the reply body; `leaf` is
\* the object that should hold the text.
OpenAIEnvelope(leaf) == [choices |-> Arr(<<Obj([message |-> leaf])>>)]
GeminiEnvelope(leaf) ==
    [candidates |-> Arr(<<Obj([content |-> Obj([parts |-> Arr(<<leaf>>)])])>>)]
AnthropicEnvelope(leaf) == [content |-> Arr(<<leaf>>)]

OpenAIText == "calm, quiet, peaceful"
GeminiText == "serene, still"
AnthropicText == "tranquil"

\* Bodies of 2xx replies: one well-formed envelope per vendor (each is also a
\* body without the top-level member the other two adapters read), a body
\* whose arrays are empty, one whose leaf objects lack the text member, and
\* one whose text members are null.
Bodies ==
    { Obj(OpenAIEnvelope(Obj([role |-> Str("assistant"), content |-> Str(OpenAIText)]))),
      Obj(GeminiEnvelope(Obj([text |-> Str(GeminiText)]))),
      Obj(AnthropicEnvelope(Obj([type |-> Str("text"), text |-> Str(AnthropicText)]))),
      Obj([choices |-> Arr(<<>>), candidates |-> Arr(<<>>), content |-> Arr(<<>>)]),
      Obj(OpenAIEnvelope(Obj([role |-> Str("assistant")]))
          @@ GeminiEnvelope(Obj([inlineData |-> Str("...")]))
          @@ AnthropicEnvelope(Obj([type |-> Str("tool_use")]))),
      Obj(OpenAIEnvelope(Obj([role |-> Str("assistant"), content |-> Null]))
          @@ GeminiEnvelope(Obj([text |-> Null]))
          @@ AnthropicEnvelope(Obj([type |-> Str("text"), text |-> Null]))) }

ErrorMessages == {"Network Error", "Request failed with status code 401", ""}

Replies ==
    {Resolved(b) : b \in Bodies}
    \cup {RejectedError(m) : m \in ErrorMessages}
    \cup {RejectedValue("timeout")}

(***************************************************************************)
(* Unwrapping the reply.                                                   *)
(***************************************************************************)
\* response.data.choices[0].message.content
OpenAIExtract(data) == Prop(Prop(First(Prop(data, "choices")), "message"), "content")

\* Mutant: the text read one level too high, at candidates[0].content.text.
GeminiExtract_shallow(data) ==
    Prop(Prop(First(Prop(data, "candidates")), "content"), "text")

\* response.data.candidates[0].content.parts[0].text
GeminiExtract(data) ==
    Prop(First(Prop(Prop(First(Prop(data, "candidates")), "content"), "parts")), "text")

\* response.data.content[0].text
AnthropicExtract(data) == Prop(First(Prop(data, "content")), "text")

AdapterExtract(service, data) ==
    CASE service = OpenAIService -> OpenAIExtract(data)
      [] service = GeminiService -> GeminiExtract(data)
      [] service = AnthropicService -> AnthropicExtract(data)

\* The catch block of makeRequest.
catchResult(e) ==
    [success |-> FALSE,
     error |-> IF IsErrorInstance(e) THEN e.error ELSE "Unknown error occurred"]

\* Mutant: the adapter keeps a busy flag in the singleton and refuses to
\* unwrap a reply while another of its requests is outstanding.
makeRequest_busy(service, reply) ==
    IF Cardinality({d \in CallIds : calls[d].pc = "awaiting" /\ calls[d].service = service}) > 1
    THEN [success |-> FALSE, error |-> "Request already in progress"]
    ELSE IF IsResolved(reply)
    THEN LET text == AdapterExtract(service, reply.resolved)
         IN  IF IsThrown(text)
             THEN catchResult([error |-> text.typeError])
             ELSE [success |-> TRUE, data |-> text]
    ELSE catchResult(reply.rejected)

\* What makeRequest of `service` returns once its axios.post has settled
\* with `reply`: the try block's return, or the catch block's when the post
\* rejected or the property chain raised a TypeError.
makeRequest(service, reply) ==
    IF IsResolved(reply)
    THEN LET text == AdapterExtract(service, reply.resolved)
         IN  IF IsThrown(text)
             THEN catchResult([error |-> text.typeError])
             ELSE [success |-> TRUE, data |-> text]
    ELSE catchResult(reply.rejected)

None == [none |-> TRUE]
IdleFrame == [pc |-> "idle"]

Methods == {"simplifyText", "findSimilarWords", "analyzeHardWords"}

\* Mutant: an unknown tag falls back to the OpenAI adapter.
ProvidersGet_fallback(map, type) == IF type \in DOMAIN map THEN map[type] ELSE OpenAIService

\* Map.get: the adapter stored under the tag, undefined when there is none.
ProvidersGet(map, type) == IF type \in DOMAIN map THEN map[type] ELSE NoService

\* The facade's answer when the lookup finds no adapter.
NotSupported == [success |-> FALSE, error |-> "Provider not supported"]

\* `return await service.<method>(...)`: the facade hands the adapter's
\* response on.
FacadeReturn(response) == response

\* The prompt the adapter method `method` builds from its arguments.
AdapterPrompt(method, args) ==
    CASE method = "simplifyText" -> simplifyPrompt(args[1])
      [] method = "findSimilarWords" -> similarPrompt(args[1], args[2])
      [] method = "analyzeHardWords" -> analyzePrompt(args[1])

\* Mutant: the adapter and the prompt are kept in fields shared by all
\* calls, so a new call overwrites those of the calls still in flight.
StoreFrame_shared(c, frame) ==
    [d \in CallIds |->
        IF d = c THEN frame
        ELSE IF calls[d].pc = "awaiting" /\ frame.pc = "awaiting"
             THEN [calls[d] EXCEPT !.service = frame.service, !.prompt = frame.prompt]
             ELSE calls[d]]

\* The locals of a call live in its own frame.
StoreFrame(c, frame) == [calls EXCEPT ![c] = frame]

\* Mutant: the request is posted twice.
IssuePost_twice(c, request) == [http EXCEPT ![c] = Append(Append(@, request), request)]

\* axios.post: one request leaves on behalf of call c.
IssuePost(c, request) == [http EXCEPT ![c] = Append(@, request)]

DispatchInit ==
    /\ providers = AIServiceConstructor
    /\ baseURL = AdapterBaseURL
    /\ calls = [c \in CallIds |-> IdleFrame]
    /\ http = [c \in CallIds |-> <<>>]

\* A facade method up to its first suspension: the lookup, then either the
\* immediate 'Provider not supported' return or the adapter method of the
\* same name, which builds its prompt and awaits axios.post in makeRequest.
Dispatch(c, method, args, provider) ==
    /\ calls[c].pc = "idle"
    /\ LET service == ProvidersGet(providers, provider.type)
       IN  IF service = NoService
           THEN /\ calls' = StoreFrame(c, [pc |-> "returned", method |-> method, args |-> args,
                                           provider |-> provider, service |-> service,
                                           invoked |-> None, prompt |-> None, reply |-> None,
                                           adapterResult |-> None, result |-> NotSupported,
                                           overlapped |-> FALSE])
                /\ UNCHANGED http
           ELSE LET prompt == AdapterPrompt(method, args)
                IN  /\ calls' = StoreFrame(c, [pc |-> "awaiting", method |-> method,
                                               args |-> args, provider |-> provider,
                                               service |-> service,
                                               invoked |-> [service |-> service,
                                                            method |-> method, args |-> args,
                                                            provider |-> provider],
                                               prompt |-> prompt, reply |-> None,
                                               adapterResult |-> None, result |-> None,
                                               overlapped |-> FALSE])
                    /\ http' = IssuePost(c, AdapterRequest(service, baseURL[service],
                                                          prompt, provider))
    /\ UNCHANGED <<providers, baseURL>>

simplifyText(c, text, provider) == Dispatch(c, "simplifyText", <<text>>, provider)

findSimilarWords(c, word, context, provider) ==
    Dispatch(c, "findSimilarWords", <<word, context>>, provider)

analyzeHardWords(c, text, provider) == Dispatch(c, "analyzeHardWords", <<text>>, provider)

\* History: another call is awaiting its reply.
OthersInFlight(c) == \E d \in CallIds \ {c} : calls[d].pc = "awaiting"

\* The awaited axios.post of call c settles with `reply`; makeRequest returns
\* to the adapter method, which returns to the facade, which returns to the
\* caller.
Settle(c, reply) ==
    /\ calls[c].pc = "awaiting"
    /\ LET response == makeRequest(calls[c].service, reply)
       IN  calls' = [calls EXCEPT ![c] = [@ EXCEPT !.pc = "returned", !.reply = reply,
                                                  !.adapterResult = response,
                                                  !.result = FacadeReturn(response),
                                                  !.overlapped = OthersInFlight(c)]]
    /\ UNCHANGED <<providers, baseURL, http>>

\* The caller's await completes: it takes the response and the frame is gone.
Take(c) ==
    /\ calls[c].pc = "returned"
    /\ calls' = [calls EXCEPT ![c] = IdleFrame]
    /\ http' = [http EXCEPT ![c] = <<>>]
    /\ UNCHANGED <<providers, baseURL>>

(***************************************************************************)
(* WordSuggestions: parsing the reply of findSimilarWords.                 *)
(*   response.data.split(',').map(w => w.trim()).filter(w => w)            *)
(* Texts are sequences of one-character strings.                           *)
(***************************************************************************)
WhiteSpace == {" ", "\n", "\t"}

\* The index of the first comma of s, 0 when it has none.
FirstComma(s) ==
    IF \E i \in 1..Len(s) : s[i] = ","
    THEN CHOOSE i \in 1..Len(s) : s[i] = "," /\ \A j \in 1..(i - 1) : s[j] # ","
    ELSE 0

RECURSIVE split(_)
\* String.prototype.split(','): the pieces between the commas, empty ones
\* included; a text without a comma is its own single piece.
split(s) ==
    LET i == FirstComma(s)
    IN  IF i = 0 THEN <<s>>
        ELSE <<SubSeq(s, 1, i - 1)>> \o split(SubSeq(s, i + 1, Len(s)))

\* String.prototype.trim: white space removed from both ends.
trim(w) ==
    LET ink == {i \in 1..Len(w) : w[i] \notin WhiteSpace}
    IN  IF ink = {} THEN <<>>
        ELSE SubSeq(w, CHOOSE i \in ink : \A j \in ink : i <= j,
                       CHOOSE i \in ink : \A j \in ink : i >= j)

\* The empty string is the only falsy string.
Truthy(w) == w # <<>>

\* Mutant: the pieces are not trimmed.
parseSuggestions_untrimmed(data) == SelectSeq(split(data), Truthy)

\* WordSuggestions.fetchSuggestions: the words set as suggestions.
parseSuggestions(data) ==
    LET pieces == split(data)
    IN  SelectSeq([k \in 1..Len(pieces) |-> trim(pieces[k])], Truthy)

Alphabet == {"a", "b", ",", " ", "\n"}

RECURSIVE TextsUpTo(_)
TextsUpTo(n) ==
    IF n = 0 THEN {<<>>}
    ELSE LET shorter == TextsUpTo(n - 1)
         IN  shorter \cup {Append(t, ch) : t \in {u \in shorter : Len(u) = n - 1},
                                            ch \in Alphabet}

\* "calm, quiet, peaceful"
CalmQuietPeaceful ==
    <<"c", "a", "l", "m", ",", " ", "q", "u", "i", "e", "t", ",", " ",
      "p", "e", "a", "c", "e", "f", "u", "l">>

ReplyTexts == TextsUpTo(MaxLen) \cup {CalmQuietPeaceful}

NotParsed == [none |-> TRUE]

ParseIdle ==
    /\ parseIn = <<>>
    /\ parseOut = NotParsed

ParseInit ==
    /\ parseIn \in ReplyTexts
    /\ parseOut = NotParsed

\* The success branch of fetchSuggestions applied to the reply text.
ParseReply ==
    /\ parseOut = NotParsed
    /\ parseOut' = [words |-> parseSuggestions(parseIn)]
    /\ UNCHANGED parseIn

\* The next reply text arrives.
NextReply ==
    /\ parseOut # NotParsed
    /\ parseIn' \in ReplyTexts
    /\ parseOut' = NotParsed


(***************************************************************************)
(* AsyncStorage and JSON.                                                  *)
(***************************************************************************)
StorageKeys == {"aiProviders", "activeAIProvider"}

\* JSON.stringify of a value made of strings, booleans, arrays and objects.
JSONstringify(v) == [json |-> v]

\* AsyncStorage with nothing stored: getItem resolves null for every key.
EmptyStorage == [k \in StorageKeys |-> Null]

StorageIdle == asyncStorage = EmptyStorage

(***************************************************************************)
(* The consumers: WordSuggestions.fetchSuggestions and                     *)
(* HardWordsAnalyzer.analyzeText.                                          *)
(***************************************************************************)
WordSuggestions == "WordSuggestions"
HardWordsAnalyzer == "HardWordsAnalyzer"
Consumers == {WordSuggestions, HardWordsAnalyzer}
NoConsumer == "none"

\* The words (texts) the parent passes as props.
PropValues == {"ubiquitous", "arcane"}

\* What the active-provider item can hold: nothing, or the configuration the
\* settings screen stored.
StoredProviders ==
    {Null} \cup {JSONstringify(p) : p \in {q \in ProviderConfigs :
                                          q.apiKey = "sk-test" /\ q.model = ""}}


\* Reply texts of findSimilarWords, and their characters.
SuggestionTexts == {OpenAIText, AnthropicText, " , ", ""}
Chars(text) ==
    CASE text = OpenAIText -> CalmQuietPeaceful
      [] text = AnthropicText -> <<"t", "r", "a", "n", "q", "u", "i", "l">>
      [] text = " , " -> <<" ", ",", " ">>
      [] text = "" -> <<>>

\* Reply texts of analyzeHardWords.
OneHardWord ==
    "{\"hardWords\":[{\"word\":\"ubiquitous\",\"alternatives\":[\"common\"],\"context\":\"The ubiquitous gadget\"}]}"
BareHardWord == "{\"hardWords\":[{\"word\":\"arcane\"}]}"
NoHardWords == "{\"hardWords\":[]}"
NullHardWord == "{\"hardWords\":[null]}"
Prose == "Here are the hard words: ubiquitous"
Truncated == "{\"hardWords\":[{\"word\":\"ubiq"
OtherMember == "{\"words\":[\"ubiquitous\"]}"
HardWordsString == "{\"hardWords\":\"ubiquitous\"}"
JSONNull == "null"
AnalysisTexts ==
    {OneHardWord, BareHardWord, NoHardWords, NullHardWord, Prose, Truncated, OtherMember,
     HardWordsString, JSONNull, ""}

SyntaxError == [syntaxError |-> TRUE]
IsSyntaxError(v) == "syntaxError" \in DOMAIN v

\* JSON.parse of an item written by JSONstringify: the value written.
ParseItem(item) == item.json

\* JSON.parse of a reply text: the value it denotes, a SyntaxError when it is
\* not JSON.
JSONparse(text) ==
    CASE text = OneHardWord ->
            Obj([hardWords |-> Arr(<<Obj([word |-> Str("ubiquitous"),
                                         alternatives |-> Arr(<<Str("common")>>),
                                         context |-> Str("The ubiquitous gadget")])>>)])
      [] text = BareHardWord -> Obj([hardWords |-> Arr(<<Obj([word |-> Str("arcane")])>>)])
      [] text = NoHardWords -> Obj([hardWords |-> Arr(<<>>)])
      [] text = NullHardWord -> Obj([hardWords |-> Arr(<<Null>>)])
      [] text = OtherMember -> Obj([words |-> Arr(<<Str("ubiquitous")>>)])
      [] text = HardWordsString -> Obj([hardWords |-> Str("ubiquitous")])
      [] text = JSONNull -> Null
      [] OTHER -> SyntaxError

\* The replies the vendor of `service` can give a consumer: its envelope
\* around each text, around a null text, and the rejections.
VendorEnvelope(service, textValue) ==
    CASE service = OpenAIService ->
            Obj(OpenAIEnvelope(Obj([role |-> Str("assistant"), content |-> textValue])))
      [] service = GeminiService -> Obj(GeminiEnvelope(Obj([text |-> textValue])))
      [] service = AnthropicService ->
            Obj(AnthropicEnvelope(Obj([type |-> Str("text"), text |-> textValue])))

ConsumerTexts(name) == IF name = WordSuggestions THEN SuggestionTexts ELSE AnalysisTexts

ConsumerReplies(name, service) ==
    {Resolved(VendorEnvelope(service, Str(t))) : t \in ConsumerTexts(name)}
    \cup {Resolved(VendorEnvelope(service, Null)),
          Resolved(Obj([choices |-> Arr(<<>>), candidates |-> Arr(<<>>), content |-> Arr(<<>>)])),
          RejectedError("Network Error"), RejectedError("")}

\* JavaScript truthiness of a response member: a non-empty string.
TruthyValue(v) == IsStr(v) /\ v.str # ""

\* response.success && response.data
HasData(response) ==
    response.success /\ "data" \in DOMAIN response /\ TruthyValue(response.data)

\* response.error || fallback
ErrorOr(response, fallback) ==
    IF "error" \in DOMAIN response /\ response.error # "" THEN response.error ELSE fallback

\* text.indexOf(word)
IndexOf(text, word) ==
    IF text = "The ubiquitous gadget" /\ word = Str("ubiquitous") THEN 4 ELSE -1

\* word.alternatives || []
AlternativesOr(word) ==
    LET a == Prop(word, "alternatives")
    IN  IF IsUndef(a) \/ IsNull(a) \/ a = Str("") THEN Arr(<<>>) ELSE a

\* analyzeText: the element of the list handed to onHardWordsFound; reading
\* a member of a null element raises a TypeError.
ToHardWord(text, word) ==
    IF IsThrown(Prop(word, "word")) THEN Thrown
    ELSE [word |-> Prop(word, "word"), position |-> IndexOf(text, Prop(word, "word")),
          context |-> Prop(word, "context"), suggestions |-> AlternativesOr(word),
          difficulty |-> 1]

\* What a run does to the component besides clearing `loading`: the error it
\* sets, the list it sets and the list it hands to onHardWordsFound; None
\* for each one it leaves alone.
Some(v) == [some |-> v]
Effect(error, list, found) == [error |-> error, list |-> list, found |-> found]

\* Mutant: no inner try/catch, so a failure of JSON.parse reaches the outer
\* catch.
innerCatch_absent(list) == Effect(Str("An error occurred during analysis"), list, None)

\* analyzeText, catch (parseError).
innerCatch(list) == Effect(Str("Failed to parse AI response"), list, None)

\* fetchSuggestions after the awaited facade call.
SuggestionsEffect(response) ==
    IF HasData(response)
    THEN Effect(None, Some(parseSuggestions(Chars(response.data.str))), None)
    ELSE Effect(Str(ErrorOr(response, "Failed to get suggestions")), None, None)

\* analyzeText after the awaited facade call.
AnalysisEffect(text, response) ==
    IF HasData(response)
    THEN LET parsed == JSONparse(response.data.str)
             hardWords == Prop(parsed, "hardWords")
         IN  IF IsSyntaxError(parsed) THEN innerCatch(None)
             ELSE IF IsThrown(hardWords) THEN innerCatch(None)
             ELSE IF IsArr(hardWords)
             THEN LET converted == [k \in 1..Len(hardWords.arr) |->
                                        ToHardWord(text, hardWords.arr[k])]
                  IN  IF \E k \in 1..Len(converted) : converted[k] = Thrown
                      THEN innerCatch(Some(hardWords.arr))
                      ELSE Effect(None, Some(hardWords.arr), Some(converted))
             ELSE Effect(None, None, None)
    ELSE Effect(Str(ErrorOr(response, "Failed to analyze text")), None, None)

\* The outer catch of either consumer.
outerCatch(name) ==
    Effect(Str(IF name = WordSuggestions
               THEN "An error occurred while fetching suggestions"
               ELSE "An error occurred during analysis"),
           None, None)

\* Mutant: the guard on the stored item is missing.
NoProviderData_unchecked(providerData) == FALSE

\* if (!providerData)
NoProviderData(providerData) == providerData = Null

\* Mutant: loading is cleared at the end of the try block only when no error
\* was set.
finallyBlock_successOnly(v, effect) ==
    IF effect.error = None THEN [v EXCEPT !.loading = FALSE] ELSE v

\* finally { setLoading(false) }
finallyBlock(v, effect) == [v EXCEPT !.loading = FALSE]

\* The state updates of a run that ends with `effect`.
ApplyEffect(v, effect) ==
    finallyBlock([v EXCEPT !.error = IF effect.error = None THEN @ ELSE effect.error,
                           !.list = IF effect.list = None THEN @ ELSE effect.list.some],
                 effect)

FetchIdle == [pc |-> "idle"]

\* Mutant: a run that set an error starts over by itself.
EndOfRun_retrying(frame, effect) ==
    IF effect.error # None /\ frame.providerData # None /\ frame.providerData # Null
    THEN [frame EXCEPT !.pc = "getItem", !.providerData = None]
    ELSE [frame EXCEPT !.pc = "done", !.effect = effect]

\* The async function returns: nothing of the run is left but what it did.
EndOfRun(frame, effect) == [frame EXCEPT !.pc = "done", !.effect = effect]

\* The locals of a run that has just been called: the closure's word (text),
\* and nothing read or received yet.
NewRun(trigger, arg) ==
    [pc |-> "getItem", trigger |-> trigger, arg |-> arg, providerData |-> None,
     facadeCalls |-> 0, response |-> None, effect |-> None]

\* The first lines of fetchSuggestions / analyzeText, up to the awaited
\* AsyncStorage.getItem: setLoading(true); setError(null).
StartRun(f, trigger) ==
    /\ fetches[f].pc \in {"idle", "done"}
    /\ calls[f].pc = "idle"
    /\ fetches' = [fetches EXCEPT ![f] = NewRun(trigger, props')]
    /\ view' = [view EXCEPT !.loading = TRUE, !.error = Null]

ConsumerIdle ==
    /\ component = NoConsumer
    /\ props = ""
    /\ view = [loading |-> FALSE, error |-> Null, list |-> <<>>]
    /\ fetches = [f \in CallIds |-> FetchIdle]

\* The component after its first render and the effect of that render: the
\* first run is waiting for AsyncStorage.getItem.
ConsumerInit ==
    /\ component \in Consumers
    /\ props = "ubiquitous"
    /\ asyncStorage \in {[EmptyStorage EXCEPT !["activeAIProvider"] = item] :
                            item \in StoredProviders}
    /\ view = [loading |-> TRUE, error |-> Null, list |-> <<>>]
    /\ fetches = [f \in CallIds |->
                    IF f = 1 THEN NewRun("mount", props) ELSE FetchIdle]

\* The parent renders the component with another word (text): the effect
\* depending on it runs fetchSuggestions (analyzeText) again.
PropsChanged(f, value) ==
    /\ component \in Consumers
    /\ value # props
    /\ props' = value
    /\ StartRun(f, "props")
    /\ UNCHANGED <<component, asyncStorage, dispatchVars>>

\* The Retry button, rendered when loading is false and error is set.
Retry(f) ==
    /\ component \in Consumers
    /\ ~view.loading
    /\ view.error # Null
    /\ props' = props
    /\ StartRun(f, "retry")
    /\ UNCHANGED <<component, asyncStorage, dispatchVars>>

\* The facade method the consumer calls, with its arguments.
ConsumerMethod(name) ==
    IF name = WordSuggestions THEN "findSimilarWords" ELSE "analyzeHardWords"
ConsumerArgs(name, arg) ==
    IF name = WordSuggestions THEN <<arg, "It is a ubiquitous gadget.">> ELSE <<arg>>

\* AsyncStorage.getItem rejects: the run ends in the outer catch.
GetItemRejected(f) ==
    /\ fetches[f].pc = "getItem"
    /\ LET effect == outerCatch(component)
       IN  /\ view' = ApplyEffect(view, effect)
           /\ fetches' = [fetches EXCEPT ![f] = EndOfRun([@ EXCEPT !.providerData = Thrown],
                                                         effect)]
    /\ UNCHANGED <<component, props, asyncStorage, dispatchVars>>

\* AsyncStorage.getItem resolves: without an item the run ends with 'No AI
\* provider configured'; with one it calls the facade and awaits it.
GetItemResolved(f) ==
    /\ fetches[f].pc = "getItem"
    /\ LET providerData == asyncStorage["activeAIProvider"]
       IN  IF NoProviderData(providerData)
           THEN LET effect == Effect(Str("No AI provider configured"), None, None)
                IN  /\ view' = ApplyEffect(view, effect)
                    /\ fetches' = [fetches EXCEPT
                                     ![f] = EndOfRun([@ EXCEPT !.providerData = providerData],
                                                     effect)]
                    /\ UNCHANGED dispatchVars
           ELSE IF providerData = Null
           \* JSON.parse(null) is null, and the facade's provider.type raises
           THEN LET effect == outerCatch(component)
                IN  /\ view' = ApplyEffect(view, effect)
                    /\ fetches' = [fetches EXCEPT
                                     ![f] = EndOfRun([@ EXCEPT !.providerData = providerData,
                                                               !.facadeCalls = 1],
                                                     effect)]
                    /\ UNCHANGED dispatchVars
           ELSE /\ Dispatch(f, ConsumerMethod(component),
                            ConsumerArgs(component, fetches[f].arg),
                            ParseItem(providerData))
                /\ fetches' = [fetches EXCEPT ![f] = [@ EXCEPT !.pc = "facade",
                                                               !.providerData = providerData,
                                                               !.facadeCalls = @ + 1]]
                /\ UNCHANGED view
    /\ UNCHANGED <<component, props, asyncStorage>>

\* The vendor answers the request of run f.
VendorReplies(f) ==
    /\ fetches[f].pc = "facade"
    /\ calls[f].pc = "awaiting"
    /\ \E reply \in ConsumerReplies(component, calls[f].service) : Settle(f, reply)
    /\ UNCHANGED <<asyncStorage, consumerVars>>

\* The awaited facade call returns to the run: the rest of the try block,
\* then finally.
HandleResponse(f) ==
    /\ fetches[f].pc = "facade"
    /\ Take(f)
    /\ LET response == calls[f].result
           effect == IF component = WordSuggestions THEN SuggestionsEffect(response)
                     ELSE AnalysisEffect(fetches[f].arg, response)
       IN  /\ view' = ApplyEffect(view, effect)
           /\ fetches' = [fetches EXCEPT ![f] = EndOfRun([@ EXCEPT !.response = response],
                                                         effect)]
    /\ UNCHANGED <<component, props, asyncStorage>>

(***************************************************************************)
(* AISettingsScreen: configuring and activating the providers.             *)
(***************************************************************************)
\* useState initial value of `providers`.
DefaultProviders ==
    [t \in AIProviderType |->
        [type |-> t, apiKey |-> "",
         model |-> CASE t = OPENAI -> "gpt-3.5-turbo"
                     [] t = GEMINI -> "gemini-pro"
                     [] t = ANTHROPIC -> "claude-3-sonnet-20240229",
         isActive |-> FALSE]]

\* What the user types into the API key and model inputs.
TypedKeys == {"", " ", "sk-test"}
TypedModels == {"custom-model"}

\* apiKey.trim()
TrimKey(key) == IF key = " " THEN "" ELSE key

\* updatedProviders.find(p => p.isActive): the first active entry, in the
\* order of the list.
ProviderOrder == <<OPENAI, GEMINI, ANTHROPIC>>
FindActive(list) ==
    LET at == {i \in 1..Len(ProviderOrder) : list[ProviderOrder[i]].isActive}
    IN  IF at = {} THEN Undef
        ELSE list[ProviderOrder[CHOOSE i \in at : \A j \in at : i <= j]]

SettingsIdle ==
    /\ screen = [providers |-> DefaultProviders, editingProvider |-> Null,
                 showEditModal |-> FALSE]
    /\ saves = <<>>

\* The screen once mounted over an empty store: loadProviders found nothing.
SettingsInit == SettingsIdle /\ StorageIdle

\* saveProviders up to its first await: setItem('aiProviders', ...) is pending.
StartSave(updatedProviders) ==
    saves' = Append(saves, [updatedProviders |-> updatedProviders, awaiting |-> "aiProviders"])

\* Edit button of a provider card.
handleProviderEdit(type) ==
    /\ ~screen.showEditModal
    /\ screen' = [screen EXCEPT !.editingProvider = screen.providers[type],
                                !.showEditModal = TRUE]
    /\ UNCHANGED <<saves, asyncStorage>>

\* Typing in the API key input of the modal.
ChangeApiKey(text) ==
    /\ screen.showEditModal
    /\ screen.editingProvider # Null
    /\ screen' = [screen EXCEPT !.editingProvider.apiKey = text]
    /\ UNCHANGED <<saves, asyncStorage>>

\* Typing in the model input of the modal.
ChangeModel(text) ==
    /\ screen.showEditModal
    /\ screen.editingProvider # Null
    /\ screen' = [screen EXCEPT !.editingProvider.model = text]
    /\ UNCHANGED <<saves, asyncStorage>>

\* Cancel button and onRequestClose of the modal.
CancelEdit ==
    /\ screen.showEditModal
    /\ screen' = [screen EXCEPT !.showEditModal = FALSE]
    /\ UNCHANGED <<saves, asyncStorage>>

\* Save button of the modal.
handleProviderSave ==
    /\ screen.showEditModal
    /\ screen.editingProvider # Null
    /\ TrimKey(screen.editingProvider.apiKey) # ""
    /\ Len(saves) < MaxSaves
    /\ StartSave([screen.providers EXCEPT ![screen.editingProvider.type] =
                                             screen.editingProvider])
    /\ screen' = [screen EXCEPT !.showEditModal = FALSE, !.editingProvider = Null]
    /\ UNCHANGED asyncStorage

\* Mutant: Activate without the check of the API key.
handleSetActive_unchecked(type) ==
    /\ ~screen.showEditModal
    /\ Len(saves) < MaxSaves
    /\ StartSave([t \in AIProviderType |->
                    [screen.providers[t] EXCEPT !.isActive = (t = type)]])
    /\ UNCHANGED <<screen, asyncStorage>>

\* Activate button, rendered on the cards whose API key is not blank.
handleSetActive(type) ==
    /\ ~screen.showEditModal
    /\ TrimKey(screen.providers[type].apiKey) # ""
    /\ Len(saves) < MaxSaves
    /\ StartSave([t \in AIProviderType |->
                    [screen.providers[t] EXCEPT !.isActive = (t = type)]])
    /\ UNCHANGED <<screen, asyncStorage>>

\* The oldest pending setItem resolves and its saveProviders goes on: after
\* the list is stored, setProviders and the write of the active entry;
\* after that one, the end.
SetItemResolved ==
    /\ saves # <<>>
    /\ LET save == Head(saves)
           activeProvider == FindActive(save.updatedProviders)
       IN  IF save.awaiting = "aiProviders"
           THEN /\ asyncStorage' = [asyncStorage EXCEPT
                                      !["aiProviders"] = JSONstringify(save.updatedProviders)]
                /\ screen' = [screen EXCEPT !.providers = save.updatedProviders]
                /\ saves' = IF activeProvider = Undef THEN Tail(saves)
                            ELSE Append(Tail(saves),
                                        [save EXCEPT !.awaiting = "activeAIProvider"])
           ELSE /\ asyncStorage' = [asyncStorage EXCEPT
                                      !["activeAIProvider"] = JSONstringify(activeProvider)]
                /\ saves' = Tail(saves)
                /\ UNCHANGED screen

\* The oldest pending setItem rejects: saveProviders ends in its catch.
SetItemRejected ==
    /\ saves # <<>>
    /\ saves' = Tail(saves)
    /\ UNCHANGED <<screen, asyncStorage>>

(***************************************************************************)
(* DatabaseService: the notes table, and SettingsScreen.clearAllData.      *)
(***************************************************************************)
\* JSON text as its sequence of tokens: punctuation, member names, and the
\* string and number literals.
Tok(t) == [tok |-> t]
Key(k) == [key |-> k]
IsNum(v) == "num" \in DOMAIN v

\* The members of the objects stored in a note, in the order written.
MemberOrder == <<"word", "position", "context", "suggestions", "difficulty">>

RECURSIVE JSONstringifyValue(_), StringifyItems(_), StringifyMembers(_, _)
\* JSON.stringify of strings, numbers, arrays and objects.
JSONstringifyValue(v) ==
    CASE IsArr(v) -> <<Tok("[")>> \o StringifyItems(v.arr) \o <<Tok("]")>>
      [] IsObj(v) ->
            <<Tok("{")>>
            \o StringifyMembers(v.obj, SelectSeq(MemberOrder, LAMBDA k : k \in DOMAIN v.obj))
            \o <<Tok("}")>>
      [] OTHER -> <<v>>
StringifyItems(a) ==
    IF a = <<>> THEN <<>>
    ELSE JSONstringifyValue(a[1])
         \o (IF Len(a) > 1 THEN <<Tok(",")>> \o StringifyItems(Tail(a)) ELSE <<>>)
StringifyMembers(o, keys) ==
    IF keys = <<>> THEN <<>>
    ELSE <<Key(keys[1])>> \o JSONstringifyValue(o[keys[1]])
         \o (IF Len(keys) > 1 THEN <<Tok(",")>> \o StringifyMembers(o, Tail(keys)) ELSE <<>>)

RECURSIVE ParseAt(_, _), ParseItems(_, _, _), ParseMembers(_, _, _)
\* JSON.parse, from token i: the value read and the token after it.
ParseAt(text, i) ==
    CASE text[i] = Tok("[") ->
            IF text[i + 1] = Tok("]") THEN [value |-> Arr(<<>>), next |-> i + 2]
            ELSE ParseItems(text, i + 1, <<>>)
      [] text[i] = Tok("{") -> ParseMembers(text, i + 1, <<>>)
      [] OTHER -> [value |-> text[i], next |-> i + 1]
ParseItems(text, i, items) ==
    LET item == ParseAt(text, i)
    IN  IF text[item.next] = Tok(",")
        THEN ParseItems(text, item.next + 1, Append(items, item.value))
        ELSE [value |-> Arr(Append(items, item.value)), next |-> item.next + 1]
ParseMembers(text, i, members) ==
    LET member == ParseAt(text, i + 1)
        read == Append(members, <<text[i].key, member.value>>)
    IN  IF text[member.next] = Tok(",")
        THEN ParseMembers(text, member.next + 1, read)
        ELSE [value |-> Obj([k \in {read[n][1] : n \in 1..Len(read)} |->
                                 LET n == CHOOSE n \in 1..Len(read) : read[n][1] = k
                                 IN  read[n][2]]),
              next |-> member.next + 1]
JSONparseText(text) == ParseAt(text, 1).value

\* Date and its time value in milliseconds.
Date(ms) == [date |-> ms]
getTime(d) == d.date

\* Mutant: the time is stored in whole seconds.
TimeColumn_seconds(d) == (getTime(d) \div 1000) * 1000

\* The value bound to created_at / updated_at.
TimeColumn(d) == getTime(d)

NoteIds == {"n1", "n2"}

\* What a note can hold besides its id.
NoteContents ==
    { [title |-> "Groceries", content |-> "milk", createdAt |-> Date(1500),
       updatedAt |-> Date(1500), hardWords |-> Arr(<<>>), tags |-> Arr(<<>>)],
      [title |-> "Ideas", content |-> "The ubiquitous gadget", createdAt |-> Date(1500),
       updatedAt |-> Date(2750),
       hardWords |-> Arr(<<Obj([word |-> Str("ubiquitous"), position |-> Num(4),
                               context |-> Str("The ubiquitous gadget"),
                               suggestions |-> Arr(<<Str("common"), Str("widespread")>>),
                               difficulty |-> Num(1)])>>),
       tags |-> Arr(<<Str("work"), Str("draft")>>)],
      [title |-> "", content |-> "", createdAt |-> Date(0), updatedAt |-> Date(2750),
       hardWords |-> Arr(<<Obj([word |-> Str("arcane"), position |-> Num(0),
                               suggestions |-> Arr(<<>>), difficulty |-> Num(1)]),
                           Obj([word |-> Str("ubiquitous"), position |-> Num(4),
                               suggestions |-> Arr(<<Str("common")>>),
                               difficulty |-> Num(1)])>>),
       tags |-> Arr(<<Str("work")>>)] }

Notes == {[id |-> i] @@ c : i \in NoteIds, c \in NoteContents}

\* The parameters saveNote binds to the columns.
NoteToRow(note) ==
    [id |-> note.id, title |-> note.title, content |-> note.content,
     created_at |-> TimeColumn(note.createdAt), updated_at |-> TimeColumn(note.updatedAt),
     hard_words |-> JSONstringifyValue(note.hardWords),
     tags |-> JSONstringifyValue(note.tags)]

\* row.hard_words || '[]'
TextOr(column) == IF column = Null \/ column = <<>> THEN <<Tok("["), Tok("]")>> ELSE column

\* The note getAllNotes builds from a row.
RowToNote(row) ==
    [id |-> row.id, title |-> row.title, content |-> row.content,
     createdAt |-> Date(row.created_at), updatedAt |-> Date(row.updated_at),
     hardWords |-> JSONparseText(TextOr(row.hard_words)),
     tags |-> JSONparseText(TextOr(row.tags))]

\* INSERT OR REPLACE INTO notes: the row takes the place of the one with its
\* primary key, if any.
InsertOrReplace(table, row) ==
    [i \in DOMAIN table \cup {row.id} |-> IF i = row.id THEN row ELSE table[i]]

\* SELECT * FROM notes ORDER BY updated_at DESC: the orders in which the
\* rows can come, rows with equal updated_at in either order.
SelectOrdered(table) ==
    {order \in [1..Cardinality(DOMAIN table) -> DOMAIN table] :
        /\ \A m, n \in DOMAIN order : m # n => order[m] # order[n]
        /\ \A m, n \in DOMAIN order :
              m < n => table[order[m]].updated_at >= table[order[n]].updated_at}

NoOp == [op |-> "none"]
\* How the promise of an operation settled.
Fulfilled(v) == [value |-> v]
Rejected == [rejected |-> TRUE]
IsFulfilled(result) == "value" \in DOMAIN result

StoreIdle ==
    /\ db = Null
    /\ notes = <<>>
    /\ lastOp = NoOp

\* A started app: the database is not open yet; the file may hold the notes
\* of earlier sessions, and AsyncStorage the settings.
StoreInit ==
    /\ db = Null
    /\ notes \in {<<>>} \cup {[i \in {n.id} |-> NoteToRow(n)] : n \in Notes}
    /\ lastOp = NoOp
    /\ asyncStorage \in {EmptyStorage} \cup
          {[EmptyStorage EXCEPT !["activeAIProvider"] = item] : item \in StoredProviders \ {Null}}

\* initializeDatabase: openDatabase, then CREATE TABLE IF NOT EXISTS for
\* each table; `opens` is whether openDatabase resolves.
initializeDatabase(opens) ==
    /\ db' = IF opens THEN Str("AINotesApp.db") ELSE db
    /\ lastOp' = [op |-> "initializeDatabase",
                  result |-> IF opens THEN Fulfilled(Undef) ELSE Rejected]
    /\ UNCHANGED <<notes, asyncStorage>>

\* saveNote(note); this.db!.executeSql on a null db raises a TypeError.
saveNote(note) ==
    /\ notes' = IF db = Null THEN notes ELSE InsertOrReplace(notes, NoteToRow(note))
    /\ lastOp' = [op |-> "saveNote", note |-> note, before |-> notes,
                  result |-> IF db = Null THEN Rejected ELSE Fulfilled(Undef)]
    /\ UNCHANGED <<db, asyncStorage>>

\* getAllNotes(); the record keeps the operation it was called after.
getAllNotes ==
    /\ lastOp.op # "getAllNotes"
    /\ IF db = Null
       THEN lastOp' = [op |-> "getAllNotes", after |-> lastOp, result |-> Rejected]
       ELSE \E order \in SelectOrdered(notes) :
               lastOp' = [op |-> "getAllNotes", after |-> lastOp,
                          result |-> Fulfilled([n \in DOMAIN order |->
                                                   RowToNote(notes[order[n]])])]
    /\ UNCHANGED <<db, notes, asyncStorage>>

\* DELETE FROM notes WHERE id = ?
DeleteWhere(table, id) == [i \in DOMAIN table \ {id} |-> table[i]]

\* Mutant: the DELETE without its WHERE clause.
deleteNote_everything(id) ==
    /\ notes' = IF db = Null THEN notes ELSE <<>>
    /\ lastOp' = [op |-> "deleteNote", id |-> id, before |-> notes,
                  result |-> IF db = Null THEN Rejected ELSE Fulfilled(Undef)]
    /\ UNCHANGED <<db, asyncStorage>>

\* deleteNote(id); the record keeps the table it was called on.
deleteNote(id) ==
    /\ notes' = IF db = Null THEN notes ELSE DeleteWhere(notes, id)
    /\ lastOp' = [op |-> "deleteNote", id |-> id, before |-> notes,
                  result |-> IF db = Null THEN Rejected ELSE Fulfilled(Undef)]
    /\ UNCHANGED <<db, asyncStorage>>

\* SettingsScreen.clearAllData once the user has chosen 'Delete All':
\* initializeDatabase, AsyncStorage.clear, then the Success alert; the
\* Error alert when either of the two rejects.
clearAllData(opens, clears) ==
    /\ db' = IF opens THEN Str("AINotesApp.db") ELSE db
    /\ asyncStorage' = IF opens /\ clears THEN EmptyStorage ELSE asyncStorage
    /\ lastOp' = [op |-> "clearAllData",
                  alert |-> IF opens /\ clears THEN "Success" ELSE "Error"]
    /\ UNCHANGED notes

(***************************************************************************)
(* HomeScreen: the list of notes.                                          *)
(***************************************************************************)
NoLoad == [pc |-> "idle"]

\* useState: no notes, loading.
HomeUnmounted ==
    [mounted |-> FALSE, notes |-> <<>>, loading |-> TRUE, alerts |-> {},
     load |-> NoLoad, opening |-> FALSE]

HomeIdle == home = HomeUnmounted

\* The editor is not open, no save of it is pending, and nothing was
\* replaced yet.
NoEditor == [open |-> FALSE, pending |-> <<>>]
EditorIdle == editor = NoEditor /\ history = <<>> /\ replacements = <<>>

ScreensIdle == HomeIdle /\ EditorIdle

\* loadNotes up to its await: setLoading(true), and getAllNotes() called,
\* which reads this.db at once for its executeSql.
loadNotes(h) == [h EXCEPT !.loading = TRUE, !.load = [pc |-> "awaiting", handle |-> db]]

\* The effect of the first render: loadNotes(), then initializeDatabase(),
\* each up to its first await.
HomeMount ==
    /\ ~home.mounted
    /\ home' = [loadNotes(home) EXCEPT !.mounted = TRUE, !.opening = TRUE]
    /\ UNCHANGED <<db, notes, lastOp, asyncStorage>>

\* The awaited getAllNotes settles and loadNotes goes on: setNotes, or the
\* catch with its alert when executeSql was called on a null handle; then
\* finally.
LoadNotesResumes ==
    /\ home.load.pc = "awaiting"
    /\ IF home.load.handle = Null
       THEN home' = [home EXCEPT !.alerts = @ \cup {"Failed to load notes"},
                                 !.loading = FALSE, !.load.pc = "done"]
       ELSE \E order \in SelectOrdered(notes) :
               home' = [home EXCEPT !.notes = [n \in DOMAIN order |->
                                                 RowToNote(notes[order[n]])],
                                    !.loading = FALSE, !.load.pc = "done"]
    /\ UNCHANGED <<db, notes, lastOp, asyncStorage>>

\* The awaited DatabaseService.initializeDatabase settles: the handle is
\* set when openDatabase resolved, the alert is shown when it rejected.
HomeDatabaseOpened(opens) ==
    /\ home.opening
    /\ db' = IF opens THEN Str("AINotesApp.db") ELSE db
    /\ home' = [home EXCEPT !.opening = FALSE,
                            !.alerts = IF opens THEN @
                                       ELSE @ \cup {"Failed to initialize database"}]
    /\ UNCHANGED <<notes, lastOp, asyncStorage>>

(***************************************************************************)
(* NoteEditor, and NoteEditorScreen.handleSave which it calls as onSave.   *)
(* The strings the editor works on (title, content, selection) are         *)
(* sequences of one-character strings.                                     *)
(***************************************************************************)
EditorAlphabet == {"a", " ", "\n"}

\* What the user types as content and as title.
EditorContents ==
    {t \in TextsUpTo(MaxContent) : \A k \in 1..Len(t) : t[k] \in EditorAlphabet}
TypedTitles == {<<>>, <<" ">>, <<"a">>, <<" ", "a", " ">>}

\* The suggestion the user taps in the WordSuggestions popup.
SuggestedWords == {<<"b">>}

\* The note passed as route.params.note, undefined for a new note.
EditorNotes ==
    { [id |-> "n1", title |-> <<"a">>, content |-> <<"a", " ", "a">>,
       createdAt |-> Date(1500), updatedAt |-> Date(2750),
       hardWords |-> Arr(<<Str("ubiquitous")>>), tags |-> Arr(<<Str("work")>>)] }

\* generateId() and new Date()
GeneratedIds == {"n2"}
Clock == {Date(3000)}

\* String.prototype.substring(start, end), 0 <= start <= end <= length.
substring(s, start, end) == SubSeq(s, start + 1, end)

\* s.split(' ').length: one piece more than there are spaces.
SplitLength(s) == Cardinality({k \in 1..Len(s) : s[k] = " "}) + 1

\* note?.id || generateId()
IdOr(note, id) == IF note = Undef \/ note.id = "" THEN id ELSE note.id

\* The useState initial values of a mounted editor.
NewEditor(note) ==
    [open |-> TRUE, pending |-> <<>>, note |-> note,
     title |-> IF note = Undef THEN <<>> ELSE note.title,
     content |-> IF note = Undef THEN <<>> ELSE note.content,
     selectedText |-> <<>>, selectionStart |-> 0, selectionEnd |-> 0,
     showWordSuggestions |-> FALSE, hardWords |-> <<>>,
     showHardWordsAnalysis |-> FALSE,
     saved |-> <<>>, alerts |-> {}, event |-> "mount"]

\* {showWordSuggestions && selectedText && <WordSuggestions ... />}
PopupShown == editor.open /\ editor.showWordSuggestions /\ Truthy(editor.selectedText)

\* The inputs and buttons of the editor can be reached: no modal is over it.
Editable == editor.open /\ ~PopupShown /\ ~editor.showHardWordsAnalysis

\* navigation.navigate('NoteEditor', { note }) / navigate('NoteEditor')
OpenEditor(note) ==
    /\ ~editor.open
    /\ editor.pending = <<>>
    /\ note = Undef \/ \E i \in DOMAIN notes : note = RowToNote(notes[i])
    /\ editor' = NewEditor(note)
    /\ UNCHANGED <<db, notes, lastOp, asyncStorage, history, replacements>>

\* Cancel: navigation.goBack()
handleCancel ==
    /\ Editable
    /\ editor' = [open |-> FALSE, pending |-> editor.pending]
    /\ UNCHANGED <<db, notes, lastOp, asyncStorage, history, replacements>>

\* onChangeText of the title input.
setTitle(text) ==
    /\ Editable
    /\ editor' = [editor EXCEPT !.title = text, !.event = "setTitle"]
    /\ UNCHANGED <<db, notes, lastOp, asyncStorage, history, replacements>>

\* onChangeText of the content input.
setContent(text) ==
    /\ Editable
    /\ editor' = [editor EXCEPT !.content = text, !.event = "setContent"]
    /\ UNCHANGED <<db, notes, lastOp, asyncStorage, history, replacements>>

\* onSelectionChange of the content input.
handleTextSelection(start, end) ==
    /\ Editable
    /\ start <= end /\ end <= Len(editor.content)
    /\ editor' =
          IF start # end
          THEN LET selected == substring(editor.content, start, end)
               IN  [editor EXCEPT !.selectionStart = start, !.selectionEnd = end,
                                  !.selectedText = selected,
                                  !.showWordSuggestions =
                                      IF SplitLength(trim(selected)) = 1 THEN TRUE ELSE @,
                                  !.event = "handleTextSelection"]
          ELSE [editor EXCEPT !.selectionStart = start, !.selectionEnd = end,
                              !.selectedText = <<>>, !.showWordSuggestions = FALSE,
                              !.event = "handleTextSelection"]
    /\ UNCHANGED <<db, notes, lastOp, asyncStorage, history, replacements>>

\* A suggestion is tapped: onWordReplace(item), which is
\* replaceSelectedText, then onClose().
replaceSelectedText(newText) ==
    /\ PopupShown
    /\ editor' = [editor EXCEPT
                    !.content = SubSeq(@, 1, editor.selectionStart) \o newText
                                \o SubSeq(@, editor.selectionEnd + 1, Len(@)),
                    !.selectedText = <<>>, !.showWordSuggestions = FALSE,
                    !.event = "replaceSelectedText"]
    /\ UNCHANGED <<db, notes, lastOp, asyncStorage, history, replacements>>

\* The close button of the popup: onClose.
CloseSuggestions ==
    /\ PopupShown
    /\ editor' = [editor EXCEPT !.showWordSuggestions = FALSE, !.event = "onClose"]
    /\ UNCHANGED <<db, notes, lastOp, asyncStorage, history, replacements>>

\* The note handleSave builds; id is what generateId() gives, created and
\* updated what the two new Date() give.
SavedNote(e, title, id, created, updated) ==
    [id |-> IdOr(e.note, id), title |-> title, content |-> e.content,
     createdAt |-> IF e.note = Undef THEN created ELSE e.note.createdAt,
     updatedAt |-> updated,
     hardWords |-> Arr([k \in 1..Len(e.hardWords) |-> e.hardWords[k].word]),
     tags |-> IF e.note = Undef THEN Arr(<<>>) ELSE e.note.tags]

\* Mutant: the title is saved as typed.
handleSave_untrimmed(id, created, updated) ==
    /\ Editable
    /\ Len(editor.saved) < MaxTaps
    /\ getTime(created) <= getTime(updated)
    /\ IF ~Truthy(trim(editor.title))
       THEN editor' = [editor EXCEPT !.alerts = @ \cup {"Please enter a title"},
                                     !.event = "handleSave"]
       ELSE LET savedNote == SavedNote(editor, editor.title, id, created, updated)
            IN  editor' = [editor EXCEPT !.saved = Append(@, savedNote),
                                         !.pending = Append(@, savedNote),
                                         !.event = "handleSave"]
    /\ UNCHANGED <<db, notes, lastOp, asyncStorage, history, replacements>>

\* The Save button: handleSave, and in it onSave(savedNote), which is
\* NoteEditorScreen.handleSave up to its awaited saveNote.
handleSave(id, created, updated) ==
    /\ Editable
    /\ Len(editor.saved) < MaxTaps
    /\ getTime(created) <= getTime(updated)
    /\ IF ~Truthy(trim(editor.title))
       THEN editor' = [editor EXCEPT !.alerts = @ \cup {"Please enter a title"},
                                     !.event = "handleSave"]
       ELSE LET savedNote == SavedNote(editor, trim(editor.title), id, created, updated)
            IN  editor' = [editor EXCEPT !.saved = Append(@, savedNote),
                                         !.pending = Append(@, savedNote),
                                         !.event = "handleSave"]
    /\ UNCHANGED <<db, notes, lastOp, asyncStorage, history, replacements>>

\* The awaited saveNote of the oldest onSave settles: navigation.goBack()
\* when it resolved, the 'Failed to save note' alert when it rejected.
SaveNoteSettles ==
    /\ editor.pending # <<>>
    /\ saveNote(Head(editor.pending))
    /\ editor' = IF db # Null THEN [open |-> FALSE, pending |-> Tail(editor.pending)]
                 ELSE IF editor.open
                 THEN [editor EXCEPT !.pending = Tail(@),
                                     !.alerts = @ \cup {"Failed to save note"},
                                     !.event = "onSave"]
                 ELSE [editor EXCEPT !.pending = Tail(@)]
    /\ UNCHANGED <<history, replacements>>

(***************************************************************************)
(* HardWordsAnalyzer inside NoteEditor: the analysis of the note's content *)
(* and handleWordReplace. Here the content is one of the texts below.      *)
(***************************************************************************)
\* The note opened for analysis.
AnalysisNotes ==
    { [id |-> "n1", title |-> <<"a">>, content |-> "The ubiquitous gadget",
       createdAt |-> Date(1500), updatedAt |-> Date(2750),
       hardWords |-> Arr(<<Str("gadget")>>), tags |-> Arr(<<Str("work")>>)] }

\* content.replaceAll(original, replacement)
replaceAll(content, original, replacement) ==
    IF /\ content = "The ubiquitous gadget"
       /\ original = Str("ubiquitous")
       /\ replacement = Str("common")
    THEN "The common gadget"
    ELSE content

\* prev.filter(word => word.word !== original)
WithoutWord(list, original) == SelectSeq(list, LAMBDA word : Prop(word, "word") # original)

\* The list, no loading indicator and no error, is what the analyzer shows.
ListShown == component = HardWordsAnalyzer /\ ~view.loading /\ view.error = Null

\* Some run of analyzeText is suspended at one of its awaits.
AnalysisInFlight == \E f \in CallIds : fetches[f].pc \in {"getItem", "facade"}

\* The 'Analyze Hard Words' button: the analyzer is mounted over the editor
\* and the effect of its first render calls analyzeText.
OpenAnalyzer(f) ==
    /\ Editable
    /\ component = NoConsumer
    /\ ~AnalysisInFlight
    /\ replacements = <<>>
    /\ editor' = [editor EXCEPT !.showHardWordsAnalysis = TRUE, !.event = "analyze"]
    /\ component' = HardWordsAnalyzer
    /\ props' = editor.content
    /\ view' = [loading |-> TRUE, error |-> Null, list |-> <<>>]
    /\ fetches[f].pc \in {"idle", "done"}
    /\ calls[f].pc = "idle"
    /\ fetches' = [fetches EXCEPT ![f] = NewRun("mount", props')]
    /\ UNCHANGED <<dispatchVars, asyncStorage, db, notes, lastOp, history, replacements>>

\* The close button of the analyzer: onClose unmounts it; its runs and its
\* replacements under way go on.
CloseAnalyzer ==
    /\ component = HardWordsAnalyzer
    /\ editor.open
    /\ editor' = [editor EXCEPT !.showHardWordsAnalysis = FALSE, !.event = "onClose"]
    /\ component' = NoConsumer
    /\ UNCHANGED <<props, view, fetches, dispatchVars, asyncStorage, db, notes, lastOp,
                   history, replacements>>

\* Mutant: the words found replace the editor's list only when it is empty.
onHardWordsFound_once(e, found) ==
    IF found = None \/ ~e.open \/ e.hardWords # <<>> THEN e
    ELSE [e EXCEPT !.hardWords = found.some]

\* onHardWordsFound={setHardWords}: called by a run that converted its list.
onHardWordsFound(e, found) ==
    IF found = None \/ ~e.open THEN e ELSE [e EXCEPT !.hardWords = found.some]

\* What the vendor answers an analysis in the editor: the list with one
\* word, the empty list, JSON without the list, a list holding null, and a
\* network failure.
AnalysisReplies(service) ==
    {Resolved(VendorEnvelope(service, Str(t))) :
        t \in {OneHardWord, NoHardWords, OtherMember, NullHardWord}}
    \cup {RejectedError("Network Error")}

\* The vendor answers the request of run f of the analyzer.
AnalysisAnswered(f) ==
    /\ fetches[f].pc = "facade"
    /\ calls[f].pc = "awaiting"
    /\ \E reply \in AnalysisReplies(calls[f].service) : Settle(f, reply)
    /\ UNCHANGED <<asyncStorage, consumerVars>>

\* The awaited facade call returns to a run of analyzeText, which also
\* hands what it found to the editor.
AnalysisReturns(f) ==
    /\ HandleResponse(f)
    /\ editor' = onHardWordsFound(editor, fetches'[f].effect.found)
    /\ UNCHANGED <<db, notes, lastOp, history, replacements>>

\* An alternative of a listed word is tapped: handleWordReplace up to its
\* awaited saveHardWordReplacement, which reads this.db at once. The frame
\* keeps the content of the render the handlers were made in.
handleWordReplace(k, a) ==
    /\ ListShown
    /\ editor.open
    /\ k \in 1..Len(view.list)
    /\ IsArr(Prop(view.list[k], "alternatives"))
    /\ a \in 1..Len(Prop(view.list[k], "alternatives").arr)
    /\ Len(history) + Len(replacements) < MaxReplacements
    /\ replacements' = Append(replacements,
                              [original |-> Prop(view.list[k], "word"),
                               replacement |-> Prop(view.list[k], "alternatives").arr[a],
                               context |-> Prop(view.list[k], "context"),
                               content |-> editor.content,
                               handle |-> db, pc |-> "saving"])
    /\ UNCHANGED <<consumerVars, dispatchVars, asyncStorage, db, notes, lastOp, history, editor>>

\* saveHardWordReplacement settles: the INSERT INTO hard_words_history is
\* done, or it failed; on a null handle it can only fail.
ReplacementSaved(inserted) ==
    /\ replacements # <<>>
    /\ Head(replacements).pc = "saving"
    /\ Head(replacements).handle = Null => ~inserted
    /\ history' = IF inserted
                  THEN Append(history, [word |-> Head(replacements).original,
                                        replacement |-> Head(replacements).replacement,
                                        context |-> Head(replacements).context])
                  ELSE history
    /\ replacements' = [replacements EXCEPT ![1].pc = IF inserted THEN "saved" ELSE "failed"]
    /\ UNCHANGED <<consumerVars, dispatchVars, asyncStorage, db, notes, lastOp, editor>>

\* Mutant: the text is replaced whether or not the history was saved.
ReplaceResumes_regardless(f) ==
    /\ replacements # <<>>
    /\ Head(replacements).pc \in {"saved", "failed"}
    /\ replacements' = Tail(replacements)
    /\ LET r == Head(replacements)
           newContent == replaceAll(r.content, r.original, r.replacement)
       IN  /\ editor' = IF editor.open
                         THEN [editor EXCEPT !.content = newContent,
                                             !.event = "onWordReplace"]
                         ELSE editor
           /\ IF component = HardWordsAnalyzer /\ editor.open /\ newContent # props
              THEN /\ fetches[f].pc \in {"idle", "done"}
                   /\ calls[f].pc = "idle"
                   /\ props' = newContent
                   /\ fetches' = [fetches EXCEPT ![f] = NewRun("props", newContent)]
                   /\ view' = [view EXCEPT !.loading = TRUE, !.error = Null,
                                           !.list = WithoutWord(@, r.original)]
              ELSE /\ f = 1
                   /\ view' = IF component = HardWordsAnalyzer
                              THEN [view EXCEPT !.list = WithoutWord(@, r.original)]
                              ELSE view
                   /\ UNCHANGED <<props, fetches>>
    /\ UNCHANGED <<component, dispatchVars, asyncStorage, db, notes, lastOp, history>>

\* handleWordReplace goes on after its await. When the history was saved:
\* onWordReplace, which sets the content of the editor, and the replaced
\* word leaves the list; a changed text makes the effect call analyzeText
\* (frame f). When it was not: the catch, and nothing but its alert.
ReplaceResumes(f) ==
    /\ replacements # <<>>
    /\ Head(replacements).pc \in {"saved", "failed"}
    /\ replacements' = Tail(replacements)
    /\ LET r == Head(replacements)
           newContent == replaceAll(r.content, r.original, r.replacement)
       IN  IF r.pc = "failed"
           THEN /\ f = 1
                /\ UNCHANGED <<editor, props, view, fetches>>
           ELSE /\ editor' = IF editor.open
                              THEN [editor EXCEPT !.content = newContent,
                                                  !.event = "onWordReplace"]
                              ELSE editor
                /\ IF component = HardWordsAnalyzer /\ editor.open /\ newContent # props
                   THEN /\ fetches[f].pc \in {"idle", "done"}
                        /\ calls[f].pc = "idle"
                        /\ props' = newContent
                        /\ fetches' = [fetches EXCEPT ![f] = NewRun("props", newContent)]
                        /\ view' = [view EXCEPT !.loading = TRUE, !.error = Null,
                                                !.list = WithoutWord(@, r.original)]
                   ELSE /\ f = 1
                        /\ view' = IF component = HardWordsAnalyzer
                                   THEN [view EXCEPT !.list = WithoutWord(@, r.original)]
                                   ELSE view
                        /\ UNCHANGED <<props, fetches>>
    /\ UNCHANGED <<component, dispatchVars, asyncStorage, db, notes, lastOp, history>>

(***************************************************************************)
(* Specifications.                                                         *)
(***************************************************************************)
Init == DispatchInit /\ ParseIdle /\ StorageIdle /\ ConsumerIdle /\ SettingsIdle /\ StoreIdle /\ ScreensIdle

Next ==
    \/ \E c \in CallIds, text \in Texts, provider \in ProviderConfigs :
          simplifyText(c, text, provider) /\ UNCHANGED <<parseVars, asyncStorage, consumerVars, settingsVars, storeVars, screenVars>>
    \/ \E c \in CallIds, word \in Words, context \in Contexts, provider \in ProviderConfigs :
          findSimilarWords(c, word, context, provider) /\ UNCHANGED <<parseVars, asyncStorage, consumerVars, settingsVars, storeVars, screenVars>>
    \/ \E c \in CallIds, text \in Texts, provider \in ProviderConfigs :
          analyzeHardWords(c, text, provider) /\ UNCHANGED <<parseVars, asyncStorage, consumerVars, settingsVars, storeVars, screenVars>>
    \/ \E c \in CallIds, reply \in Replies : Settle(c, reply) /\ UNCHANGED <<parseVars, asyncStorage, consumerVars, settingsVars, storeVars, screenVars>>
    \/ \E c \in CallIds : Take(c) /\ UNCHANGED <<parseVars, asyncStorage, consumerVars, settingsVars, storeVars, screenVars>>

Spec == Init /\ [][Next]_vars

\* The suggestion parser alone, over every reply text up to MaxLen.
InitParse ==
    DispatchInit /\ ParseInit /\ StorageIdle /\ ConsumerIdle /\ SettingsIdle /\ StoreIdle /\ ScreensIdle

NextParse ==
    \/ ParseReply /\ UNCHANGED <<dispatchVars, asyncStorage, consumerVars, settingsVars, storeVars, screenVars>>
    \/ NextReply /\ UNCHANGED <<dispatchVars, asyncStorage, consumerVars, settingsVars, storeVars, screenVars>>

SpecParse == InitParse /\ [][NextParse]_vars

\* A mounted consumer with the dispatch layer under it.
InitConsumer == DispatchInit /\ ParseIdle /\ ConsumerInit /\ SettingsIdle /\ StoreIdle /\ ScreensIdle

NextConsumer ==
    \/ \E f \in CallIds, value \in PropValues : PropsChanged(f, value) /\ UNCHANGED <<parseVars, settingsVars, storeVars, screenVars>>
    \/ \E f \in CallIds : Retry(f) /\ UNCHANGED <<parseVars, settingsVars, storeVars, screenVars>>
    \/ \E f \in CallIds : GetItemRejected(f) /\ UNCHANGED <<parseVars, settingsVars, storeVars, screenVars>>
    \/ \E f \in CallIds : GetItemResolved(f) /\ UNCHANGED <<parseVars, settingsVars, storeVars, screenVars>>
    \/ \E f \in CallIds : VendorReplies(f) /\ UNCHANGED <<parseVars, settingsVars, storeVars, screenVars>>
    \/ \E f \in CallIds : HandleResponse(f) /\ UNCHANGED <<parseVars, settingsVars, storeVars, screenVars>>

SpecConsumer == InitConsumer /\ [][NextConsumer]_vars

\* The settings screen over AsyncStorage.
InitSettings == DispatchInit /\ ParseIdle /\ ConsumerIdle /\ SettingsInit /\ StoreIdle /\ ScreensIdle

NextSettings ==
    \/ \E type \in AIProviderType : handleProviderEdit(type) /\ UNCHANGED otherThanSettings
    \/ \E text \in TypedKeys : ChangeApiKey(text) /\ UNCHANGED otherThanSettings
    \/ \E text \in TypedModels : ChangeModel(text) /\ UNCHANGED otherThanSettings
    \/ CancelEdit /\ UNCHANGED otherThanSettings
    \/ handleProviderSave /\ UNCHANGED otherThanSettings
    \/ \E type \in AIProviderType : handleSetActive(type) /\ UNCHANGED otherThanSettings
    \/ SetItemResolved /\ UNCHANGED otherThanSettings
    \/ SetItemRejected /\ UNCHANGED otherThanSettings

SpecSettings == InitSettings /\ [][NextSettings]_vars

\* The note store and the settings store under the screens that use them.
InitStore ==
    DispatchInit /\ ParseIdle /\ ConsumerIdle /\ SettingsIdle /\ StoreInit /\ ScreensIdle

NextStore ==
    \/ \E opens \in BOOLEAN : initializeDatabase(opens) /\ UNCHANGED otherThanStore
    \/ \E note \in Notes : saveNote(note) /\ UNCHANGED otherThanStore
    \/ getAllNotes /\ UNCHANGED otherThanStore
    \/ \E id \in NoteIds : deleteNote(id) /\ UNCHANGED otherThanStore
    \/ \E opens, clears \in BOOLEAN : clearAllData(opens, clears) /\ UNCHANGED otherThanStore

SpecStore == InitStore /\ [][NextStore]_vars

\* The started app: HomeScreen, the first route, over the note store, with
\* the saves of the editor screen and the clear of the settings screen.
InitHome ==
    DispatchInit /\ ParseIdle /\ ConsumerIdle /\ SettingsIdle /\ StoreInit /\ ScreensIdle

otherThanHome ==
    <<dispatchVars, parseVars, consumerVars, settingsVars, editor, history, replacements>>

NextHome ==
    \/ HomeMount /\ UNCHANGED otherThanHome
    \/ LoadNotesResumes /\ UNCHANGED otherThanHome
    \/ \E opens \in BOOLEAN : HomeDatabaseOpened(opens) /\ UNCHANGED otherThanHome
    \/ \E note \in Notes : home.mounted /\ saveNote(note) /\ UNCHANGED <<otherThanHome, home>>
    \/ \E opens, clears \in BOOLEAN :
          home.mounted /\ clearAllData(opens, clears) /\ UNCHANGED <<otherThanHome, home>>

SpecHome == InitHome /\ [][NextHome]_vars

\* The editor screen over the note store, the database opened or not.
InitEditor ==
    /\ DispatchInit /\ ParseIdle /\ StorageIdle /\ ConsumerIdle /\ SettingsIdle /\ ScreensIdle
    /\ db \in {Null, Str("AINotesApp.db")}
    /\ notes \in {<<>>} \cup {[i \in {n.id} |-> NoteToRow(n)] : n \in EditorNotes}
    /\ lastOp = NoOp

otherThanEditor == <<dispatchVars, parseVars, consumerVars, settingsVars, home>>

\* Typing and selecting in the content input, with the suggestions popup.
NextEditor ==
    \/ \E note \in {Undef} \cup EditorNotes : OpenEditor(note) /\ UNCHANGED otherThanEditor
    \/ handleCancel /\ UNCHANGED otherThanEditor
    \/ \E text \in EditorContents : setContent(text) /\ UNCHANGED otherThanEditor
    \/ \E start, end \in 0..MaxContent : handleTextSelection(start, end) /\ UNCHANGED otherThanEditor
    \/ \E newText \in SuggestedWords : replaceSelectedText(newText) /\ UNCHANGED otherThanEditor
    \/ CloseSuggestions /\ UNCHANGED otherThanEditor

SpecEditor == InitEditor /\ [][NextEditor]_vars

\* Titling and saving, with contents of at most MaxSavedContent characters.
NextEditorSave ==
    \/ \E note \in {Undef} \cup EditorNotes : OpenEditor(note) /\ UNCHANGED otherThanEditor
    \/ handleCancel /\ UNCHANGED otherThanEditor
    \/ \E text \in TypedTitles : setTitle(text) /\ UNCHANGED otherThanEditor
    \/ \E text \in {t \in EditorContents : Len(t) <= MaxSavedContent} :
          setContent(text) /\ UNCHANGED otherThanEditor
    \/ \E id \in GeneratedIds, created, updated \in Clock :
          handleSave(id, created, updated) /\ UNCHANGED otherThanEditor
    \/ SaveNoteSettles /\ UNCHANGED otherThanEditor

SpecEditorSave == InitEditor /\ [][NextEditorSave]_vars

\* The editor opened on a stored note, with the analyzer over it: the
\* active provider configured or not, the database opened or not.
InitAnalysis ==
    /\ DispatchInit /\ ParseIdle /\ ConsumerIdle /\ SettingsIdle /\ ScreensIdle
    /\ asyncStorage \in
          {EmptyStorage,
           [EmptyStorage EXCEPT !["activeAIProvider"] =
               JSONstringify([type |-> OPENAI, apiKey |-> "sk-test", model |-> "",
                              isActive |-> TRUE])]}
    /\ db \in {Null, Str("AINotesApp.db")}
    /\ notes \in {[i \in {n.id} |-> NoteToRow(n)] : n \in AnalysisNotes}
    /\ lastOp = NoOp

otherThanAnalysis == <<parseVars, settingsVars, home>>
analysisVars == <<consumerVars, dispatchVars>>

NextAnalysis ==
    \/ \E note \in AnalysisNotes : OpenEditor(note) /\ UNCHANGED <<otherThanAnalysis, analysisVars>>
    \/ handleCancel /\ UNCHANGED <<otherThanAnalysis, analysisVars>>
    \/ \E f \in CallIds : OpenAnalyzer(f) /\ UNCHANGED otherThanAnalysis
    \/ CloseAnalyzer /\ UNCHANGED otherThanAnalysis
    \/ \E f \in CallIds :
          GetItemRejected(f) /\ UNCHANGED <<otherThanAnalysis, storeVars, editor, history, replacements>>
    \/ \E f \in CallIds :
          GetItemResolved(f) /\ UNCHANGED <<otherThanAnalysis, storeVars, editor, history, replacements>>
    \/ \E f \in CallIds :
          AnalysisAnswered(f) /\ UNCHANGED <<otherThanAnalysis, storeVars, editor, history, replacements>>
    \/ \E f \in CallIds : AnalysisReturns(f) /\ UNCHANGED otherThanAnalysis
    \/ \E k, a \in 1..MaxReplacements : handleWordReplace(k, a) /\ UNCHANGED otherThanAnalysis
    \/ \E inserted \in BOOLEAN : ReplacementSaved(inserted) /\ UNCHANGED otherThanAnalysis
    \/ \E f \in CallIds : ReplaceResumes(f) /\ UNCHANGED otherThanAnalysis
    \/ \E id \in GeneratedIds, created, updated \in Clock :
          handleSave(id, created, updated) /\ UNCHANGED <<otherThanAnalysis, analysisVars>>
    \/ SaveNoteSettles /\ UNCHANGED <<otherThanAnalysis, analysisVars>>

SpecAnalysis == InitAnalysis /\ [][NextAnalysis]_vars

\* The same consumer where what is awaited settles: AsyncStorage.getItem
\* resolves or rejects, every HTTP request issued is answered or fails, and
\* a run whose awaited call has returned is resumed by the event loop.
InitConsumerFair ==
    /\ InitConsumer
    /\ asyncStorage["activeAIProvider"] \in
            {Null, JSONstringify([type |-> OPENAI, apiKey |-> "sk-test", model |-> "",
                                  isActive |-> TRUE])}

\* Run f is under way: suspended at one of its two awaits.
InFlight(f) == fetches[f].pc \in {"getItem", "facade"}

\* Where run f stands, and the facade call it awaits.
Stage(f) == <<fetches[f].pc, calls[f].pc>>

\* Weak fairness of the continuation of each run (GetItemResolved,
\* VendorReplies, HandleResponse of its frame), in the form "infinitely
\* often disabled or infinitely often taken": the continuation of run f is
\* enabled exactly while the run is under way, and its steps are the ones
\* that change the run's stage.
FairConsumer ==
    \A f \in CallIds : []<>(~InFlight(f)) \/ []<><<TRUE>>_(Stage(f))

SpecConsumerFair == InitConsumerFair /\ [][NextConsumer]_vars /\ FairConsumer

TypeOK ==
    /\ providers \in [AIProviderType -> Adapters]
    /\ \A c \in CallIds : calls[c].pc \in {"idle", "awaiting", "returned"}

(***************************************************************************)
(* Properties of the dispatch facade and the adapters.                     *)
(***************************************************************************)
Live(c) == calls[c].pc # "idle"
Returned(c) == calls[c].pc = "returned"
Registered(c) == calls[c].provider.type \in {OPENAI, GEMINI, ANTHROPIC}
IsRejected(reply) == "rejected" \in DOMAIN reply

\* C1: a call of any of the three facade operations whose vendor tag is not
\* one of the three registered tags has returned exactly
\* {success:false, error:"Provider not supported"} and has issued no HTTP
\* request.
C1_UnsupportedProvider ==
    \A c \in CallIds :
        (Live(c) /\ ~Registered(c)) =>
            /\ Returned(c)
            /\ calls[c].result = [success |-> FALSE, error |-> "Provider not supported"]
            /\ http[c] = <<>>

C1_Witness ==
    \E c \in CallIds :
        /\ Returned(c) /\ calls[c].provider.type = UnknownTag
        /\ calls[c].method = "findSimilarWords"
        /\ http[c] = <<>>

\* C2 (as claimed): a call made with an empty apiKey fails fast: it has
\* returned a failure response and no HTTP request was issued for it.
C2_EmptyKeyFailsFast ==
    \A c \in CallIds :
        (Live(c) /\ calls[c].provider.apiKey = "") =>
            /\ http[c] = <<>>
            /\ Returned(c)
            /\ calls[c].result.success = FALSE

\* C3 (as claimed): when the HTTP request failed, the call returns
\* {success:false, error:e} with e a non-empty string.
C3_FailureHasMessage ==
    \A c \in CallIds :
        (Returned(c) /\ IsRejected(calls[c].reply)) =>
            /\ calls[c].result.success = FALSE
            /\ "error" \in DOMAIN calls[c].result
            /\ calls[c].result.error # ""

\* The text position the interface description names for each vendor.
TextPosition(type, data) ==
    CASE type = OPENAI -> Prop(Prop(First(Prop(data, "choices")), "message"), "content")
      [] type = GEMINI ->
           Prop(First(Prop(Prop(First(Prop(data, "candidates")), "content"), "parts")), "text")
      [] type = ANTHROPIC -> Prop(First(Prop(data, "content")), "text")

\* C4: a 2xx reply that carries a string t at the vendor's text position
\* (choices[0].message.content for OpenAI, candidates[0].content.parts[0].text
\* for Gemini, content[0].text for Anthropic) yields {success:true, data:t},
\* for every task.
C4_ExtractsVendorText ==
    \A c \in CallIds :
        (Returned(c) /\ Registered(c) /\ IsResolved(calls[c].reply)) =>
            LET t == TextPosition(calls[c].provider.type, calls[c].reply.resolved)
            IN  IsStr(t) => calls[c].result = [success |-> TRUE, data |-> t]

C4_Witness ==
    \E c \in CallIds :
        /\ Returned(c) /\ calls[c].provider.type = GEMINI
        /\ calls[c].method = "analyzeHardWords"
        /\ calls[c].result = [success |-> TRUE, data |-> Str(GeminiText)]

\* C5: every call whose vendor tag is registered has issued exactly one HTTP
\* request, a POST, from the moment it is dispatched and whatever it returns.
C5_ExactlyOnePost ==
    \A c \in CallIds :
        (Live(c) /\ Registered(c)) =>
            /\ Len(http[c]) = 1
            /\ http[c][1].method = "POST"

C5_Witness ==
    \E c \in CallIds :
        /\ Returned(c) /\ Registered(c)
        /\ IsRejected(calls[c].reply)
        /\ Len(http[c]) = 1

\* The adapter each vendor tag stands for.
AdapterOf(type) ==
    CASE type = OPENAI -> OpenAIService
      [] type = GEMINI -> GeminiService
      [] type = ANTHROPIC -> AnthropicService

\* C6: for a registered vendor tag the facade invokes the same-named
\* operation of the adapter of that tag, once, with the caller's arguments
\* and config, and returns what that adapter returned.
C6_DelegatesVerbatim ==
    \A c \in CallIds :
        (Live(c) /\ Registered(c)) =>
            /\ calls[c].invoked = [service |-> AdapterOf(calls[c].provider.type),
                                   method |-> calls[c].method,
                                   args |-> calls[c].args,
                                   provider |-> calls[c].provider]
            /\ Returned(c) => calls[c].result = calls[c].adapterResult

C6_Witness ==
    \E c \in CallIds :
        /\ Returned(c) /\ calls[c].provider.type = GEMINI
        /\ calls[c].invoked.service = GeminiService
        /\ calls[c].invoked.method = "simplifyText"
        /\ calls[c].result = calls[c].adapterResult
        /\ calls[c].result.success

\* C7 (as claimed): a returned response with success = true has a string
\* as data and no error; one with success = false has an error and no data.
C7_ResponseShape ==
    \A c \in CallIds :
        Returned(c) =>
            LET r == calls[c].result
            IN  IF r.success
                THEN "data" \in DOMAIN r /\ IsStr(r.data) /\ "error" \notin DOMAIN r
                ELSE "error" \in DOMAIN r /\ "data" \notin DOMAIN r

\* C8 (as claimed): a 2xx reply without a string at the vendor's text
\* position is reported as {success:false, error}.
C8_MalformedReplyFails ==
    \A c \in CallIds :
        (Returned(c) /\ Registered(c) /\ IsResolved(calls[c].reply)) =>
            LET t == TextPosition(calls[c].provider.type, calls[c].reply.resolved)
            IN  ~IsStr(t) => (calls[c].result.success = FALSE
                              /\ "error" \in DOMAIN calls[c].result)

SameRequest(c, d) ==
    /\ calls[c].method = calls[d].method
    /\ calls[c].args = calls[d].args
    /\ calls[c].provider = calls[d].provider

\* C9: two calls with the same task, arguments and config that received the
\* same reply returned the same response, whatever was called before them;
\* the facade's adapter map and the adapters' fields are as constructed.
C9_Idempotent ==
    /\ providers = (OPENAI :> OpenAIService) @@ (GEMINI :> GeminiService)
                       @@ (ANTHROPIC :> AnthropicService)
    /\ baseURL = AdapterBaseURL
    /\ \A c, d \in CallIds :
          (Returned(c) /\ Returned(d) /\ SameRequest(c, d) /\ calls[c].reply = calls[d].reply)
              => calls[c].result = calls[d].result

C9_Witness ==
    \E c, d \in CallIds :
        /\ c # d /\ Returned(c) /\ Returned(d)
        /\ SameRequest(c, d) /\ calls[c].reply = calls[d].reply
        /\ IsResolved(calls[c].reply)
        /\ calls[c].result.success

\* What a call returns when it runs alone and its request gets `reply`.
AloneResponse(method, args, provider, reply) ==
    IF provider.type \in {OPENAI, GEMINI, ANTHROPIC}
    THEN makeRequest(AdapterOf(provider.type), reply)
    ELSE [success |-> FALSE, error |-> "Provider not supported"]

\* C10: with calls interleaved, every call in flight works on its own
\* adapter, prompt and request, and every returned call has the response
\* it would have returned alone for the reply it received.
C10_Independent ==
    \A c \in CallIds :
        /\ (Live(c) /\ Registered(c)) =>
              /\ calls[c].service = AdapterOf(calls[c].provider.type)
              /\ calls[c].prompt = AdapterPrompt(calls[c].method, calls[c].args)
              /\ http[c] = <<AdapterRequest(calls[c].service, AdapterBaseURL[calls[c].service],
                                            calls[c].prompt, calls[c].provider)>>
        /\ Returned(c) =>
              calls[c].result = AloneResponse(calls[c].method, calls[c].args,
                                              calls[c].provider, calls[c].reply)

C10_Witness ==
    \E c, d \in CallIds :
        /\ c # d /\ Returned(c) /\ Returned(d)
        /\ calls[c].overlapped
        /\ calls[c].service = calls[d].service
        /\ calls[c].method # calls[d].method
        /\ calls[c].reply # calls[d].reply
        /\ calls[c].result.success /\ ~calls[d].result.success

\* The request each vendor's interface prescribes for a prompt and a config.
\* The model segment of the Gemini URL is left open when the config names none.
PrescribedRequest(type, r, prompt, provider) ==
    CASE type = OPENAI ->
           /\ r.url = <<"https://api.openai.com/v1/chat/completions">>
           /\ DOMAIN r.headers = {"Authorization", "ContentType"}
           /\ r.headers.Authorization = <<"Bearer ", provider.apiKey>>
           /\ DOMAIN r.body = {"model", "messages", "temperature", "max_tokens"}
           /\ r.body.messages = <<[role |-> "user", content |-> prompt]>>
      [] type = GEMINI ->
           /\ Len(r.url) = 5
           /\ r.url[1] = "https://generativelanguage.googleapis.com/v1beta/models"
           /\ r.url[2] = "/"
           /\ provider.model # "" => r.url[3] = provider.model
           /\ r.url[4] = ":generateContent?key="
           /\ r.url[5] = provider.apiKey
           /\ DOMAIN r.headers = {"ContentType"}
           /\ DOMAIN r.body = {"contents", "generationConfig"}
           /\ r.body.contents = <<[parts |-> <<[text |-> prompt]>>]>>
      [] type = ANTHROPIC ->
           /\ r.url = <<"https://api.anthropic.com/v1/messages">>
           /\ DOMAIN r.headers = {"xApiKey", "ContentType", "anthropicVersion"}
           /\ r.headers.xApiKey = provider.apiKey
           /\ r.headers.anthropicVersion = "2023-06-01"
           /\ DOMAIN r.body = {"model", "max_tokens", "messages"}
           /\ r.body.messages = <<[role |-> "user", content |-> prompt]>>

\* C18: the single request of a call is a POST to the vendor's fixed
\* endpoint with the apiKey in the vendor's position and nowhere else
\* (OpenAI: Authorization: Bearer <apiKey>; Gemini: ?key=<apiKey> after
\* models/<model>:generateContent; Anthropic: x-api-key, together with
\* anthropic-version: 2023-06-01), and the prompt is the only user content
\* of the body.
C18_RequestFormat ==
    \A c \in CallIds :
        (Live(c) /\ Registered(c)) =>
            /\ Len(http[c]) = 1
            /\ http[c][1].method = "POST"
            /\ PrescribedRequest(calls[c].provider.type, http[c][1],
                                 AdapterPrompt(calls[c].method, calls[c].args),
                                 calls[c].provider)

C18_Witness ==
    \E c, d \in CallIds :
        /\ Live(c) /\ calls[c].provider.type = GEMINI
        /\ calls[c].provider.apiKey = "sk-test" /\ calls[c].provider.model = "custom-model"
        /\ Len(http[c]) = 1
        /\ Live(d) /\ calls[d].provider.type = ANTHROPIC
        /\ calls[d].provider.apiKey = "sk-test"
        /\ Len(http[d]) = 1

\* The pieces of a text as the description gives them: piece k lies between
\* the (k-1)-th and the k-th comma.
CommaAt(s) == {i \in 1..Len(s) : s[i] = ","}
PieceStart(s, k) ==
    IF k = 1 THEN 1
    ELSE 1 + CHOOSE i \in CommaAt(s) : Cardinality({j \in CommaAt(s) : j <= i}) = k - 1
PieceEnd(s, k) ==
    IF k = Cardinality(CommaAt(s)) + 1 THEN Len(s)
    ELSE (CHOOSE i \in CommaAt(s) : Cardinality({j \in CommaAt(s) : j <= i}) = k) - 1
\* Piece k without its surrounding white space: from..to, empty when from > to.
InkOf(s, k) == {i \in PieceStart(s, k)..PieceEnd(s, k) : s[i] \notin WhiteSpace}
TrimmedPiece(s, k) ==
    IF InkOf(s, k) = {} THEN <<>>
    ELSE SubSeq(s, CHOOSE i \in InkOf(s, k) : \A j \in InkOf(s, k) : i <= j,
                   CHOOSE i \in InkOf(s, k) : \A j \in InkOf(s, k) : i >= j)
\* The numbers of the pieces that are not empty once trimmed.
Kept(s) == {k \in 1..(Cardinality(CommaAt(s)) + 1) : TrimmedPiece(s, k) # <<>>}

\* C14: the parsed list is the reply split on commas, each piece trimmed,
\* empty pieces dropped, order kept: its n-th word is the n-th non-empty
\* trimmed piece; no word is empty, starts or ends with white space, or
\* holds a comma; "calm, quiet, peaceful" gives calm, quiet, peaceful.
C14_ParsedSuggestions ==
    parseOut # NotParsed =>
        LET words == parseOut.words
        IN  /\ Len(words) = Cardinality(Kept(parseIn))
            /\ \A n \in 1..Len(words) :
                  /\ \E k \in Kept(parseIn) :
                        /\ Cardinality({j \in Kept(parseIn) : j <= k}) = n
                        /\ words[n] = TrimmedPiece(parseIn, k)
                  /\ words[n] # <<>>
                  /\ words[n][1] \notin WhiteSpace
                  /\ words[n][Len(words[n])] \notin WhiteSpace
                  /\ \A i \in 1..Len(words[n]) : words[n][i] # ","
            /\ parseIn = CalmQuietPeaceful =>
                  words = << <<"c", "a", "l", "m">>, <<"q", "u", "i", "e", "t">>,
                             <<"p", "e", "a", "c", "e", "f", "u", "l">> >>

C14_Witness ==
    /\ parseIn = <<" ", "a", ",", ",">>
    /\ parseOut = [words |-> << <<"a">> >>]

\* The run f ends in this step.
RunEnds(f) == fetches[f].pc \in {"getItem", "facade"} /\ fetches'[f].pc = "done"

\* C11: a run that finds no item under 'activeAIProvider' ends with the
\* error 'No AI provider configured' and loading cleared, has not called the
\* facade, and no HTTP request was or is issued for it.
C11_NoProviderNoRequest ==
    [][\A f \in CallIds :
          (RunEnds(f) /\ fetches'[f].providerData = Null) =>
              /\ view'.error = Str("No AI provider configured")
              /\ ~view'.loading
              /\ fetches'[f].facadeCalls = 0
              /\ calls[f] = IdleFrame /\ http[f] = <<>>
              /\ calls' = calls /\ http' = http]_vars

C11_Witness ==
    \E f \in CallIds :
        /\ component = HardWordsAnalyzer
        /\ fetches[f].pc = "done"
        /\ fetches[f].providerData = Null
        /\ view.error = Str("No AI provider configured")
        /\ ~view.loading
        /\ http[f] = <<>>

\* Reply texts that are not JSON.
NotJSON == {"Here are the hard words: ubiquitous", "{\"hardWords\":[{\"word\":\"ubiq"}

\* The run of analyzeText in `frame` has received a successful response
\* whose data is one of `texts`.
AnalyzedOneOf(frame, texts) ==
    /\ component = HardWordsAnalyzer
    /\ frame.pc = "done"
    /\ frame.response # None
    /\ frame.response.success
    /\ "data" \in DOMAIN frame.response
    /\ IsStr(frame.response.data)
    /\ frame.response.data.str \in texts

\* C12: when analyzeHardWords succeeds with data that is not JSON, the run
\* of analyzeText ends normally with the error 'Failed to parse AI
\* response' shown and loading cleared, shows no new list and does not call
\* onHardWordsFound.
C12_NotJSONIsParseFailure ==
    [][\A f \in CallIds :
          (RunEnds(f) /\ AnalyzedOneOf(fetches'[f], NotJSON)) =>
              /\ view'.error = Str("Failed to parse AI response")
              /\ ~view'.loading
              /\ view'.list = view.list
              /\ fetches'[f].effect.found = None]_vars

C12_Witness ==
    \E f \in CallIds :
        /\ AnalyzedOneOf(fetches[f], NotJSON)
        /\ view.error = Str("Failed to parse AI response")
        /\ ~view.loading

\* Reply texts that are JSON without an array member hardWords.
ShapeViolations == {"{\"words\":[\"ubiquitous\"]}", "{\"hardWords\":\"ubiquitous\"}"}

\* C13: when analyzeHardWords succeeds with JSON data whose hardWords member
\* is missing or not an array, the run of analyzeText sets an error.
C13_ShapeViolationIsFailure ==
    \A f \in CallIds :
        AnalyzedOneOf(fetches[f], ShapeViolations) => fetches[f].effect.error # None

\* A run starts in frame f in this step.
RunStarts(f) == fetches'[f].pc = "getItem" /\ fetches[f].pc # "getItem"

\* The consumer shows an error and no run is under way.
FailedAtRest ==
    /\ ~view.loading
    /\ view.error # Null
    /\ \A f \in CallIds : fetches[f].pc \in {"idle", "done"}

C17_RunsEnd ==
    \A f \in CallIds :
        InFlight(f)
            ~> /\ fetches[f].pc = "done"
               /\ ~view.loading
               /\ fetches[f].facadeCalls = 1 =>
                     /\ calls[f].pc = "idle"
                     /\ "success" \in DOMAIN fetches[f].response

C17_Witness ==
    \E f, g \in CallIds :
        /\ fetches[f].pc = "done" /\ fetches[f].providerData = Thrown
        /\ fetches[g].pc = "done" /\ fetches[g].response # None
        /\ fetches[g].effect.error = Str("Failed to parse AI response")
        /\ ~view.loading

\* C15: at most one provider of the settings screen's list is active.
C15_AtMostOneActive ==
    Cardinality({t \in AIProviderType : screen.providers[t].isActive}) <= 1

\* C19: when clearAllData has shown its Success alert, the notes table is
\* empty and so is AsyncStorage.
C19_ClearLeavesNothing ==
    (lastOp.op = "clearAllData" /\ lastOp.alert = "Success") =>
        /\ DOMAIN notes = {}
        /\ asyncStorage = EmptyStorage

\* getAllNotes has just returned `result` right after a successful
\* saveNote(note) on a table that held `before`.
ReadAfterSave ==
    /\ lastOp.op = "getAllNotes"
    /\ IsFulfilled(lastOp.result)
    /\ lastOp.after.op = "saveNote"
    /\ IsFulfilled(lastOp.after.result)

\* C20: read back right after saveNote(n), the list holds exactly one note
\* with n's id, equal to n in every field; every note with another id is
\* there exactly as it was read before the save, and nothing else is.
C20_SaveRoundTrip ==
    ReadAfterSave =>
        LET result == lastOp.result.value
            n == lastOp.after.note
            before == lastOp.after.before
        IN  /\ Cardinality({k \in DOMAIN result : result[k].id = n.id}) = 1
            /\ \A k \in DOMAIN result : result[k].id = n.id => result[k] = n
            /\ \A i \in DOMAIN before \ {n.id} :
                  Cardinality({k \in DOMAIN result : result[k] = RowToNote(before[i])}) = 1
            /\ Len(result) = Cardinality(DOMAIN before \cup {n.id})

C20_Witness ==
    /\ ReadAfterSave
    /\ lastOp.after.note.id \in DOMAIN lastOp.after.before
    /\ RowToNote(lastOp.after.before[lastOp.after.note.id]) # lastOp.after.note
    /\ Len(lastOp.result.value) = 2
    /\ \E k \in DOMAIN lastOp.result.value :
          /\ lastOp.result.value[k] = lastOp.after.note
          /\ Len(lastOp.result.value[k].hardWords.arr) = 2


\* deleteNote(id) has just resolved on the table `before`.
Deleted ==
    /\ lastOp.op = "deleteNote"
    /\ IsFulfilled(lastOp.result)

\* C22: after deleteNote(id) no note has that id and every other note is
\* there as it was; when no note had that id the table is as it was. On an
\* open database the call does not reject.
C22_DeleteRemovesOne ==
    /\ Deleted =>
          /\ lastOp.id \notin DOMAIN notes
          /\ \A i \in DOMAIN lastOp.before \ {lastOp.id} :
                i \in DOMAIN notes /\ notes[i] = lastOp.before[i]
          /\ DOMAIN notes \subseteq DOMAIN lastOp.before
          /\ lastOp.id \notin DOMAIN lastOp.before => notes = lastOp.before
    /\ (lastOp.op = "deleteNote" /\ db # Null) => IsFulfilled(lastOp.result)

\* One of two stored notes has been deleted.
C22_Witness ==
    /\ Deleted
    /\ Cardinality(DOMAIN lastOp.before) = 2
    /\ lastOp.id \in DOMAIN lastOp.before
    /\ Cardinality(DOMAIN notes) = 1

\* Every run of the component has ended, and run g is the one started last:
\* it is the only one called with the word the component has now.
LastRunAtRest(g) ==
    /\ \A f \in CallIds : ~InFlight(f)
    /\ fetches[g].pc = "done"
    /\ fetches[g].arg = props
    /\ \A f \in CallIds \ {g} : fetches[f].pc = "done" => fetches[f].arg # props

\* What the component shows once loading is over: the error when one is
\* set, the list otherwise.
Displayed(v) == IF v.error # Null THEN [error |-> v.error] ELSE [list |-> v.list]

\* C24: once every request of WordSuggestions has resolved, what is shown
\* is the outcome of the request for the most recent word: its error, or
\* its suggestions with no error.
C24_LatestRequestShown ==
    \A g \in CallIds :
        (component = WordSuggestions /\ LastRunAtRest(g)) =>
            Displayed(view) = IF fetches[g].effect.error # None
                              THEN [error |-> fetches[g].effect.error]
                              ELSE [list |-> fetches[g].effect.list.some]

(***************************************************************************)
(* Properties of the screens over the note store.                          *)
(***************************************************************************)
\* C23: HomeScreen calls getAllNotes only on an opened database: the
\* handle its loadNotes run used is not null, and the run does not end in
\* the 'Failed to load notes' alert.
C23_LoadAfterInitialize ==
    /\ home.load.pc # "idle" => home.load.handle # Null
    /\ "Failed to load notes" \notin home.alerts

(***************************************************************************)
(* Properties of what the settings screen persists.                        *)
(***************************************************************************)
\* C21: the record persisted under 'activeAIProvider', when there is one,
\* has an apiKey that is not empty after trimming.
C21_ActiveKeyNotBlank ==
    asyncStorage["activeAIProvider"] # Null =>
        TrimKey(ParseItem(asyncStorage["activeAIProvider"]).apiKey) # ""

\* An activation has been persisted, and a later edit of another provider
\* has gone through as well.
C21_Witness ==
    /\ saves = <<>>
    /\ asyncStorage["activeAIProvider"] # Null
    /\ ParseItem(asyncStorage["activeAIProvider"]).apiKey = "sk-test"
    /\ \E t \in AIProviderType :
          /\ t # ParseItem(asyncStorage["activeAIProvider"]).type
          /\ ParseItem(asyncStorage["aiProviders"])[t].apiKey = "sk-test"

\* The list and the active record as persisted.
PersistedList == ParseItem(asyncStorage["aiProviders"])
PersistedActive == ParseItem(asyncStorage["activeAIProvider"])

\* C25: whenever no saveProviders call is in flight, the record under
\* 'activeAIProvider' is the entry with isActive = true of the list under
\* 'aiProviders': there is a record exactly when there is such an entry,
\* and the two agree in type, apiKey and model.
C25_ActiveRecordMatchesList ==
    saves = <<>> =>
        LET active == IF asyncStorage["aiProviders"] = Null THEN {}
                      ELSE {t \in AIProviderType : PersistedList[t].isActive}
        IN  /\ asyncStorage["activeAIProvider"] # Null <=> active # {}
            /\ \A t \in active :
                  /\ PersistedActive.type = PersistedList[t].type
                  /\ PersistedActive.apiKey = PersistedList[t].apiKey
                  /\ PersistedActive.model = PersistedList[t].model


(***************************************************************************)
(* Properties of the note editor.                                          *)
(***************************************************************************)
\* The words of a text: its maximal runs of characters other than white
\* space, each given by where it starts.
WordStarts(s) ==
    {k \in 1..Len(s) : s[k] \notin WhiteSpace /\ (k = 1 \/ s[k - 1] \in WhiteSpace)}

\* C28: whenever the WordSuggestions popup is shown, the selection passed
\* to it as `word` holds exactly one word: it is not empty, not white space
\* only, and not two or more words.
C28_PopupHasOneWord ==
    PopupShown => Cardinality(WordStarts(editor.selectedText)) = 1

\* A step of handleSave: the Save button was tapped in the editor.
SaveTapped ==
    /\ editor.open /\ editor'.open
    /\ editor'.event = "handleSave"
    /\ editor' # editor

\* C30: handleSave with a blank title hands nothing to onSave and starts no
\* save; with another title it hands onSave one note, whose title is the
\* trimmed title, and whose id, createdAt and tags are those of the note
\* being edited when there is one.
C30_SaveChecksTitle ==
    [][SaveTapped =>
          IF trim(editor.title) = <<>>
          THEN /\ editor'.saved = editor.saved
               /\ editor'.pending = editor.pending
               /\ notes' = notes
          ELSE /\ Len(editor'.saved) = Len(editor.saved) + 1
               /\ SubSeq(editor'.saved, 1, Len(editor.saved)) = editor.saved
               /\ LET savedNote == editor'.saved[Len(editor'.saved)]
                  IN  /\ savedNote.title = trim(editor.title)
                      /\ editor'.pending = Append(editor.pending, savedNote)
                      /\ editor.note # Undef =>
                            /\ savedNote.id = editor.note.id
                            /\ savedNote.createdAt = editor.note.createdAt
                            /\ savedNote.tags = editor.note.tags]_vars

\* A blank title was refused, and then the existing note was saved under a
\* title typed with spaces around it.
C30_Witness ==
    /\ editor.open
    /\ "Please enter a title" \in editor.alerts
    /\ editor.note # Undef
    /\ editor.title = <<" ", "a", " ">>
    /\ editor.saved # <<>>
    /\ editor.saved[Len(editor.saved)].title = <<"a">>
    /\ editor.saved[Len(editor.saved)].id = "n1"


(***************************************************************************)
(* Properties of the hard-words analysis inside the editor.                *)
(***************************************************************************)
\* Run f of analyzeText ends in this step with a list and no error: a
\* successful analysis.
AnalysisSucceeds(f) ==
    /\ fetches[f].pc = "facade"
    /\ fetches'[f].pc = "done"
    /\ fetches'[f].effect.error = None
    /\ fetches'[f].effect.list # None

\* The words of a list of hard words, in order.
WordsOf(list) == [k \in 1..Len(list) |-> Prop(list[k], "word")]

ReplaceResumed ==
    /\ replacements # <<>>
    /\ Head(replacements).pc \in {"saved", "failed"}
    /\ replacements' = Tail(replacements)

\* C29: when saving the replacement failed, the step that resumes
\* handleWordReplace changes neither the content of the note nor the list
\* shown; and the content is replaced only by a step that resumes after a
\* successful save, whose row is in the history by then.
C29_ReplaceAfterHistory ==
    [][/\ (ReplaceResumed /\ Head(replacements).pc = "failed") =>
             /\ editor' = editor
             /\ view' = view
             /\ fetches' = fetches
       /\ (editor.open /\ editor'.open /\ editor'.content # editor.content) =>
             /\ ReplaceResumed
             /\ Head(replacements).pc = "saved"
             /\ \E n \in 1..Len(history) :
                   /\ history[n].word = Head(replacements).original
                   /\ history[n].replacement = Head(replacements).replacement
      ]_vars

\* After a replacement that went through, another one has failed on the
\* opened database and is about to resume.
C29_Witness ==
    /\ editor.open
    /\ editor.content = "The common gadget"
    /\ Len(history) = 1
    /\ replacements # <<>>
    /\ Head(replacements).pc = "failed"
    /\ Head(replacements).handle # Null
    /\ Len(view.list) = 1

\* C27: a replacement that went through, in the mounted analyzer, starts
\* exactly one run of analyzeText for the new content when the content
\* changed, and starts none and only takes the replaced word off the list
\* when it did not; no run issues more than one request; and when the run
\* started for the new content ends with nothing else under way and no
\* error, the list shown is the list of its reply.
C27_ReplaceReanalyses ==
    [][/\ (/\ ReplaceResumed /\ Head(replacements).pc = "saved"
           /\ component = HardWordsAnalyzer /\ editor.open) =>
             IF editor'.content # editor.content
             THEN /\ Cardinality({f \in CallIds : fetches'[f] # fetches[f]}) = 1
                  /\ \A f \in CallIds :
                        fetches'[f] # fetches[f] =>
                            fetches'[f] = NewRun("props", editor'.content)
             ELSE /\ fetches' = fetches
                  /\ calls' = calls
                  /\ http' = http
                  /\ view' = [view EXCEPT
                                !.list = WithoutWord(@, Head(replacements).original)]
       /\ \A f \in CallIds : fetches'[f].pc # "idle" => fetches'[f].facadeCalls <= 1
       /\ \A g \in CallIds :
             (/\ fetches[g].pc = "facade" /\ fetches'[g].pc = "done"
              /\ fetches[g].trigger = "props"
              /\ component = HardWordsAnalyzer
              /\ \A f \in CallIds \ {g} : ~InFlight(f)
              /\ view'.error = Null) =>
                 /\ fetches'[g].effect.list # None
                 /\ view'.list = fetches'[g].effect.list.some
      ]_vars

====
